---------------------------- MODULE Spec2Model ----------------------------
(***************************************************************************)
(* A model of the one.projfs provider: the content cache (ContentCache),   *)
(* the directory enumeration callbacks, the deferred file-data protocol   *)
(* (GetFileData / CompletePendingFileRequests / the host's readFile) and   *)
(* the notification policy of ProjFSProvider.                              *)
(*                                                                         *)
(* A virtual path is a sequence of tokens: the separator "/" and path      *)
(* segments, so that rfind('/') and substr() act as they do on the string. *)
(***************************************************************************)
EXTENDS Integers, Sequences, FiniteSets, TLC

VARIABLES
    fileInfoCache,      \* ContentCache::fileInfoCache_  : path -> [data, timestamp]
    directoryCache,     \* ContentCache::directoryCache_ : path -> [data, timestamp]
    contentCache,       \* ContentCache::contentCache_   : path -> [data, timestamp]
    ttl_,               \* ContentCache::ttl_ (seconds)
    now,                \* std::chrono::steady_clock::now()
    insertCount,        \* the function-static insertCount of SetFileInfo
    lastSet,            \* history: per map and path, the last value set
    lastOp,             \* history: the call that made the last step, where it
                        \* was an InvalidatePath or the entry of a Get callback
    enumerationStates_, \* ProjFSProvider::enumerationStates_ : id -> EnumerationState
    kernel,             \* per open session: the directory and the search
                        \* expression the kernel passes with its calls
    pc,                 \* per callback thread: where it is in GetDirectoryEnumeration
    enumId,             \* per callback thread: the session of its call
    dirFetches,         \* FetchDirectoryListing calls in flight: those whose
                        \* readDirectory has not run, those not yet resolved
    readCount,          \* how often the host's readDirectory has run
    scan,               \* history: per session, the names written to the
                        \* kernel's buffers and the names the kernel refused
    pendingFileRequests_, \* ProjFSProvider::pendingFileRequests_ : CommandId -> request
    dataCall,           \* per thread: the GetFileData call that has missed the
                        \* cache and has not yet stored its request
    contentFetches,     \* FetchFileContent calls in flight, by the command
                        \* that made them
    nextCommandId,      \* the CommandId the kernel gives its next command
    returned,           \* history: what GetFileData returned for a command
    completions,        \* history: how many PrjCompleteCommand calls were made
                        \* for a command
    lastCompleted,      \* history: the completions made by the latest call of
                        \* CompletePendingFileRequests, by command
    writeQueue_,        \* AsyncBridge::writeQueue_
    running_,           \* AsyncBridge::running_
    hostWrites,         \* the createFile calls made into the host
    notified,           \* the last notification and what the callback returned
    notifyCount,        \* how many notifications the kernel has sent
    isRunning_,         \* ProjFSProvider::isRunning_
    virtualizationContext_, \* ProjFSProvider::virtualizationContext_
    hostCallbacks,      \* the ThreadSafeFunction handles of the AsyncBridge
    alive,              \* the process has not crashed
    bridgeQueue,        \* the calls queued for the host loop, by callback
    infoFetches,        \* the paths FetchFileInfo has asked the host for
    lifecycle,          \* history: the start, stop and registerCallbacks
                        \* calls made so far
    tombstones,         \* the paths the platform remembers as deleted
    watchEvents,        \* the deletions fs.watch has yet to report to the host
    held,               \* per thread: the mutexes it holds, in the order taken
    lockPlan            \* per thread: the lock and unlock calls its current
                        \* call has yet to make

cacheVars == <<fileInfoCache, directoryCache, contentCache, ttl_, insertCount>>

enumVars == <<enumerationStates_, kernel, pc, enumId, dirFetches, readCount, scan>>

dataVars == <<pendingFileRequests_, dataCall, contentFetches, nextCommandId,
              returned, completions, lastCompleted>>

notifyVars == <<writeQueue_, running_, hostWrites, notified, notifyCount>>

lockVars == <<held, lockPlan>>

tombVars == <<tombstones, watchEvents, lockVars>>

lifeVars == <<isRunning_, virtualizationContext_, hostCallbacks, alive,
              bridgeQueue, infoFetches, lifecycle, tombVars>>

otherVars == <<dataVars, notifyVars, lifeVars>>

vars == <<fileInfoCache, directoryCache, contentCache, ttl_, now, insertCount,
          lastSet, lastOp, enumerationStates_, kernel, pc, enumId, dirFetches,
          readCount, scan, pendingFileRequests_, dataCall, contentFetches,
          nextCommandId, returned, completions, lastCompleted, writeQueue_,
          running_,
          hostWrites, notified, notifyCount, isRunning_, virtualizationContext_,
          hostCallbacks, alive, bridgeQueue, infoFetches, lifecycle,
          tombstones, watchEvents, held, lockPlan>>

(***************************************************************************)
(* Bounds of the model.                                                    *)
(***************************************************************************)
MaxTime == 1            \* the clock runs 0..MaxTime
MaxInserts == 2         \* SetFileInfo calls made by one run

(***************************************************************************)
(* Program constants.                                                      *)
(***************************************************************************)
DefaultTTL == 3600
CleanPeriod == 100
MaxCachedContentSize == 1048576

(***************************************************************************)
(* Optionals (std::optional / std::nullopt).                               *)
(***************************************************************************)
NullOpt == [found |-> FALSE]
Some(x) == [found |-> TRUE, data |-> x]

(***************************************************************************)
(* Paths.                                                                  *)
(***************************************************************************)
Root == <<"/">>
EmptyPath == << >>
PathA == <<"/", "a">>
PathAB == <<"/", "a", "/", "b">>
CachePaths == {Root, PathA, PathAB}
ListingPaths == {Root, PathA}       \* the directories whose listing is set
FilePaths == {PathA}                \* the paths whose info and content are set

\* std::string::rfind('/'): the last index holding the separator, 0 for npos
RFindSlash(path) ==
    LET idx == {i \in 1..Len(path) : path[i] = "/"}
    IN IF idx = {} THEN 0 ELSE CHOOSE i \in idx : \A j \in idx : j <= i

\* path.substr(0, lastSlash), positions counted from 1 here
SubstrBefore(path, lastSlash) == SubSeq(path, 1, lastSlash - 1)

\* the directory that holds path (what the specification calls its parent)
ParentDir(path) ==
    IF RFindSlash(path) <= 1 THEN Root ELSE SubstrBefore(path, RFindSlash(path))

(***************************************************************************)
(* Values kept in the cache.                                               *)
(***************************************************************************)
FileInfo(name, size, isDirectory) ==
    [name |-> name, size |-> size, isDirectory |-> isDirectory]

InfoValues == {FileInfo("b", 260, FALSE), FileInfo("a", 0, TRUE)}

ListingValues ==
    { <<FileInfo("a", 0, TRUE), FileInfo("b", 260, FALSE)>>,
      <<FileInfo("b", 260, FALSE), FileInfo("a", 0, TRUE)>> }

\* a file body: its length and the identity of its bytes
Content(id, size) == [id |-> id, size |-> size]
SmallContent == Content("abc", 3)
BigContent == Content("big", MaxCachedContentSize + 1)
ContentValues == {SmallContent, BigContent}

\* the liveness windows SetCacheTTL is called with
TTLInputs == {0, 1}

(***************************************************************************)
(* ContentCache.                                                           *)
(***************************************************************************)
Erase(m, path) == [q \in DOMAIN m \ {path} |-> m[q]]

Store(m, path, value) ==
    [q \in DOMAIN m \cup {path} |->
        IF q = path THEN [data |-> value, timestamp |-> now] ELSE m[q]]

IsValid(entry, ttl) == now - entry.timestamp < ttl

\* a sweep that tests the age the wrong way round
SweepLiveEntries(m, ttl) == [q \in {k \in DOMAIN m : ~IsValid(m[k], ttl)} |-> m[q]]

CleanExpiredEntries(m, ttl) == [q \in {k \in DOMAIN m : IsValid(m[k], ttl)} |-> m[q]]

Lookup(m, path) ==
    IF path \in DOMAIN m /\ IsValid(m[path], ttl_) THEN Some(m[path].data) ELSE NullOpt

GetFileInfo(path) == Lookup(fileInfoCache, path)
GetDirectoryListing(path) == Lookup(directoryCache, path)
GetFileContent(path) == Lookup(contentCache, path)

\* the cache as one value, so that a handler can make several calls in a row
Cache ==
    [fileInfo |-> fileInfoCache, directory |-> directoryCache,
     content |-> contentCache, ttl |-> ttl_, inserts |-> insertCount]

Becomes(c) ==
    /\ fileInfoCache' = c.fileInfo
    /\ directoryCache' = c.directory
    /\ contentCache' = c.content
    /\ ttl_' = c.ttl
    /\ insertCount' = c.inserts

CleanAll(c) ==
    [c EXCEPT !.fileInfo = CleanExpiredEntries(@, c.ttl),
              !.directory = CleanExpiredEntries(@, c.ttl),
              !.content = CleanExpiredEntries(@, c.ttl)]

SetFileInfo(c, path, info) ==
    LET stored == [c EXCEPT !.fileInfo = Store(@, path, info),
                            !.inserts = @ + 1]
    IN IF stored.inserts % CleanPeriod = 0 THEN CleanAll(stored) ELSE stored

SetDirectoryListing(c, path, listing) ==
    LET stored == [c EXCEPT !.directory = Store(@, path, listing)]
    IN IF Cardinality(DOMAIN stored.directory) > 1000 THEN CleanAll(stored) ELSE stored

\* a cache that keeps content of any size
SetFileContentUnlimited(c, path, content) ==
    [c EXCEPT !.content = Store(@, path, content)]

SetFileContent(c, path, content) ==
    IF content.size <= MaxCachedContentSize
    THEN LET stored == [c EXCEPT !.content = Store(@, path, content)]
         IN IF Cardinality(DOMAIN stored.content) > 100 THEN CleanAll(stored)
                                                        ELSE stored
    ELSE c

InvalidatePath(c, path) ==
    LET lastSlash == RFindSlash(path)
        erased == Erase(c.directory, path)
    IN [c EXCEPT !.fileInfo = Erase(@, path),
                 !.content = Erase(@, path),
                 !.directory = IF lastSlash # 0
                               THEN Erase(erased, SubstrBefore(path, lastSlash))
                               ELSE erased]

InvalidateAll(c) ==
    [c EXCEPT !.fileInfo = << >>, !.directory = << >>, !.content = << >>]

SetCacheTTL(c, ttl) == [c EXCEPT !.ttl = ttl]

(***************************************************************************)
(* History of the cache operations: per map and path the value last set    *)
(* and the time of that set.  kept: no invalidation has touched the path   *)
(* since.  owed: the cache accepted the value, no invalidation has touched *)
(* the path since, and the age of the entry has been below the TTL in      *)
(* every state since.                                                      *)
(***************************************************************************)
NoHistory == [info |-> << >>, listing |-> << >>, content |-> << >>]

Remember(h, path, value, accepted) ==
    [q \in DOMAIN h \cup {path} |->
        IF q = path
        THEN [value |-> value, timestamp |-> now, kept |-> TRUE, owed |-> accepted]
        ELSE h[q]]

Drop(rec) == [value |-> rec.value, timestamp |-> 0, kept |-> FALSE, owed |-> FALSE]

Forget(h, paths) == [q \in DOMAIN h |-> IF q \in paths THEN Drop(h[q]) ELSE h[q]]

\* the values whose age is not below the TTL in the state reached stop being owed
Aged(h, time, ttl) ==
    [q \in DOMAIN h |->
        IF h[q].owed /\ ~(time - h[q].timestamp < ttl)
        THEN [h[q] EXCEPT !.owed = FALSE]
        ELSE h[q]]

AgedAll(hist, time, ttl) ==
    [info |-> Aged(hist.info, time, ttl),
     listing |-> Aged(hist.listing, time, ttl),
     content |-> Aged(hist.content, time, ttl)]

(***************************************************************************)
(* The cache on its own: its operations called in any order.  The counter  *)
(* of SetFileInfo is static, so a cache starts with the count its process  *)
(* has reached.                                                            *)
(***************************************************************************)
InitialInserts == CleanPeriod - 2

\* the callback threads of the platform
Threads == {"t1", "t2"}
OpenThreads == {"t1"}
NoId == "none"

\* no enumeration session is open and no callback is running
InitEnum ==
    /\ enumerationStates_ = << >>
    /\ kernel = << >>
    /\ pc = [t \in Threads |-> "idle"]
    /\ enumId = [t \in Threads |-> NoId]
    /\ dirFetches = [queued |-> 0, resolved |-> 0]
    /\ readCount = 0
    /\ scan = << >>

NoCall == [cmd |-> 0]
NoNotification == [kind |-> "none"]

\* no file request is pending, no GetFileData call and no fetch is running
InitData ==
    /\ pendingFileRequests_ = << >>
    /\ dataCall = [t \in Threads |-> NoCall]
    /\ contentFetches = << >>
    /\ nextCommandId = 1
    /\ returned = << >>
    /\ completions = << >>
    /\ lastCompleted = << >>

\* the bridge has been started, nothing is queued, nothing was notified
InitNotify ==
    /\ writeQueue_ = << >>
    /\ running_ = TRUE
    /\ hostWrites = << >>
    /\ notified = NoNotification
    /\ notifyCount = 0

FetchKinds == {"getFileInfo", "readDirectory", "readFile"}

\* the threads that take the mutexes: the callback threads of the platform
\* and the thread of the host's event loop
LockThreads == Threads \cup {"host"}

\* no call is under way and no mutex is held
InitLocks ==
    /\ held = [t \in LockThreads |-> << >>]
    /\ lockPlan = [t \in LockThreads |-> << >>]

\* the projection runs: the constructor has registered the callbacks of the
\* host and start() has succeeded
InitLife ==
    /\ isRunning_ = TRUE
    /\ virtualizationContext_ = "context"
    /\ hostCallbacks = "registered"
    /\ alive = TRUE
    /\ bridgeQueue = [kind \in FetchKinds |-> 0]
    /\ infoFetches = {}
    /\ lifecycle = <<"start">>
    /\ tombstones = {}
    /\ watchEvents = {}
    /\ InitLocks

InitCache ==
    /\ fileInfoCache = << >>
    /\ directoryCache = << >>
    /\ contentCache = << >>
    /\ ttl_ = DefaultTTL
    /\ now = 0
    /\ insertCount = InitialInserts
    /\ lastSet = NoHistory
    /\ lastOp = [op |-> "init"]
    /\ InitEnum
    /\ InitData
    /\ InitNotify
    /\ InitLife

CacheSetFileInfo ==
    \E path \in FilePaths, info \in InfoValues :
        /\ insertCount < InitialInserts + MaxInserts
        /\ Becomes(SetFileInfo(Cache, path, info))
        /\ UNCHANGED now
        /\ lastSet' = AgedAll([lastSet EXCEPT !.info = Remember(@, path, info, TRUE)],
                              now, ttl_)
        /\ lastOp' = [op |-> "other"]
        /\ UNCHANGED <<enumVars, otherVars>>

CacheSetDirectoryListing ==
    \E path \in ListingPaths, listing \in ListingValues :
        /\ Becomes(SetDirectoryListing(Cache, path, listing))
        /\ UNCHANGED now
        /\ lastSet' = AgedAll([lastSet EXCEPT !.listing = Remember(@, path, listing, TRUE)],
                              now, ttl_)
        /\ lastOp' = [op |-> "other"]
        /\ UNCHANGED <<enumVars, otherVars>>

CacheSetFileContent ==
    \E path \in FilePaths, content \in ContentValues :
        /\ Becomes(SetFileContent(Cache, path, content))
        /\ UNCHANGED now
        /\ lastSet' = AgedAll([lastSet EXCEPT !.content =
                                  Remember(@, path, content,
                                           content.size <= MaxCachedContentSize)],
                              now, ttl_)
        /\ lastOp' = [op |-> "other"]
        /\ UNCHANGED <<enumVars, otherVars>>

CacheInvalidatePath ==
    \E path \in CachePaths :
        /\ Becomes(InvalidatePath(Cache, path))
        /\ UNCHANGED now
        /\ lastSet' = [info |-> Forget(lastSet.info, {path}),
                       listing |-> Forget(lastSet.listing, {path, ParentDir(path)}),
                       content |-> Forget(lastSet.content, {path})]
        /\ lastOp' = [op |-> "InvalidatePath", path |-> path]
        /\ UNCHANGED <<enumVars, otherVars>>

CacheInvalidateAll ==
    /\ Becomes(InvalidateAll(Cache))
    /\ UNCHANGED now
    /\ lastSet' = [info |-> Forget(lastSet.info, CachePaths),
                   listing |-> Forget(lastSet.listing, CachePaths),
                   content |-> Forget(lastSet.content, CachePaths)]
    /\ lastOp' = [op |-> "other"]
    /\ UNCHANGED <<enumVars, otherVars>>

CacheSetCacheTTL ==
    \E ttl \in TTLInputs :
        /\ Becomes(SetCacheTTL(Cache, ttl))
        /\ UNCHANGED now
        /\ lastSet' = AgedAll(lastSet, now, ttl)
        /\ lastOp' = [op |-> "other"]
        /\ UNCHANGED <<enumVars, otherVars>>

\* the steady clock advances
Tick ==
    /\ now < MaxTime
    /\ now' = now + 1
    /\ UNCHANGED cacheVars
    /\ lastSet' = AgedAll(lastSet, now + 1, ttl_)
    /\ lastOp' = [op |-> "other"]
    /\ UNCHANGED <<enumVars, otherVars>>

NextCache ==
    \/ CacheSetFileInfo
    \/ CacheSetDirectoryListing
    \/ CacheSetFileContent
    \/ CacheInvalidatePath
    \/ CacheInvalidateAll
    \/ CacheSetCacheTTL
    \/ Tick

SpecCache == InitCache /\ [][NextCache]_vars

(***************************************************************************)
(* Properties of the cache.                                                *)
(***************************************************************************)
InfoOwed(p) == p \in DOMAIN lastSet.info /\ lastSet.info[p].owed
ListingOwed(p) == p \in DOMAIN lastSet.listing /\ lastSet.listing[p].owed

InfoKeptAndYoung(p) ==
    /\ p \in DOMAIN lastSet.info
    /\ lastSet.info[p].kept
    /\ now - lastSet.info[p].timestamp < ttl_

ListingKeptAndYoung(p) ==
    /\ p \in DOMAIN lastSet.listing
    /\ lastSet.listing[p].kept
    /\ now - lastSet.listing[p].timestamp < ttl_

\* C8, as stated: after set_info(p, i) (set_listing(p, l)), with no later set
\* or invalidate that affects p and while the age of the entry is below the
\* TTL, get_info(p) returns exactly i (get_listing(p) returns exactly l).
C8_RoundTripWhileYoung ==
    /\ \A p \in FilePaths :
          InfoKeptAndYoung(p) => GetFileInfo(p) = Some(lastSet.info[p].value)
    /\ \A p \in ListingPaths :
          ListingKeptAndYoung(p) => GetDirectoryListing(p) = Some(lastSet.listing[p].value)

\* C8, amended: after set_info(p, i) (set_listing(p, l)), with no later set or
\* invalidate that affects p and if the age of the entry has been below the
\* TTL in force ever since the set, get_info(p) returns exactly i
\* (get_listing(p) returns exactly l, whole and in the same order).
C8_RoundTripWhileOwed ==
    /\ \A p \in FilePaths :
          InfoOwed(p) => GetFileInfo(p) = Some(lastSet.info[p].value)
    /\ \A p \in ListingPaths :
          ListingOwed(p) => GetDirectoryListing(p) = Some(lastSet.listing[p].value)

\* an info and a listing set earlier are both read back after the clock moved
C8_Witness ==
    /\ InfoOwed(PathA) /\ lastSet.info[PathA].timestamp < now
    /\ GetFileInfo(PathA) = Some(lastSet.info[PathA].value)
    /\ ListingOwed(Root) /\ lastSet.listing[Root].timestamp < now
    /\ GetDirectoryListing(Root) = Some(lastSet.listing[Root].value)

LatestLive(m, h, p) ==
    Lookup(m, p).found =>
        /\ p \in DOMAIN h
        /\ Lookup(m, p).data = h[p].value
        /\ now - m[p].timestamp < ttl_

\* C9: a get on P returns not-found or the value most recently set for P,
\* never an overwritten value and never a value whose age is not strictly
\* below the TTL in force at the read.
C9_GetReturnsLatestLive ==
    \A p \in CachePaths :
        /\ LatestLive(fileInfoCache, lastSet.info, p)
        /\ LatestLive(directoryCache, lastSet.listing, p)
        /\ LatestLive(contentCache, lastSet.content, p)

\* C10: invalidate(p) removes p from the three maps and removes the cached
\* listing of the directory that holds p, the root included.
C10_InvalidateRemovesParentListing ==
    lastOp.op = "InvalidatePath" =>
        /\ lastOp.path \notin DOMAIN fileInfoCache
        /\ lastOp.path \notin DOMAIN directoryCache
        /\ lastOp.path \notin DOMAIN contentCache
        /\ GetDirectoryListing(ParentDir(lastOp.path)) = NullOpt

\* the step is a SetFileContent(p, c) with c above the limit: the history of
\* p now names such a c as the value set last, and it did not before
BigContentSet(p) ==
    /\ p \in DOMAIN lastSet'.content
    /\ lastSet'.content[p].value.size > MaxCachedContentSize
    /\ lastSet'.content[p].kept
    /\ p \in DOMAIN lastSet.content => lastSet.content[p] # lastSet'.content[p]

\* C11: set_content(p, c) with c larger than 1 MiB is silently ignored.  The
\* call leaves the content map unchanged, and the map never holds an entry
\* larger than 1 MiB, so that get_content never returns such a c.
C11_BigContentIgnored ==
    [][/\ \A p \in DOMAIN contentCache' :
             contentCache'[p].data.size <= MaxCachedContentSize
       /\ (\E p \in FilePaths : BigContentSet(p)) => contentCache' = contentCache]_vars

\* content above the limit was set last for a path that holds smaller content
C11_Witness ==
    /\ PathA \in DOMAIN lastSet.content
    /\ lastSet.content[PathA].value = BigContent
    /\ lastSet.content[PathA].kept
    /\ GetFileContent(PathA) = Some(SmallContent)

(***************************************************************************)
(* Directory enumeration: ProjFSProvider's Start/Get/End callbacks, the    *)
(* host's readDirectory and the listing-updated notification.              *)
(***************************************************************************)
MaxGetCalls == 3        \* Get calls made on one session between restarts
MaxReads == 2           \* runs of the host's readDirectory
MaxFetches == 2         \* FetchDirectoryListing calls in flight
MaxRoom == 2            \* entries a kernel buffer has room for

MAX_CALLS_PER_ENUM == 100

EnumIds == {"e1"}
PathObjects == <<"/", "objects">>

\* callbackData->FilePathName of the directories enumerated (relative paths)
EnumDirs == {<< >>, <<"objects">>}

\* searchExpression of the kernel: everything, or one name
SearchExpressions == {"*", "a"}

\* SyncStorage::ListObjects: the object files on disk
StorageObjects == <<"h1">>

\* std::replace(relativePath, '\\', '/')
ReplaceBackslashes(path) ==
    [i \in 1..Len(path) |-> IF path[i] = "\\" THEN "/" ELSE path[i]]

\* relativePath.empty() ? "/" : "/" + relativePath
VirtualPath(relativePath) ==
    IF relativePath = << >> THEN Root
    ELSE <<"/">> \o ReplaceBackslashes(relativePath)

\* virtualPath == "/objects" || virtualPath.compare(0, 9, "/objects/") == 0
IsObjectsPath(virtualPath) ==
    /\ Len(virtualPath) >= 2
    /\ virtualPath[1] = "/" /\ virtualPath[2] = "objects"
    /\ (Len(virtualPath) = 2 \/ virtualPath[3] = "/")

\* SyncStorage::ListDirectory as GetDirectoryEnumeration turns it into entries
StorageEntries(virtualPath) ==
    IF virtualPath = PathObjects
    THEN [i \in 1..Len(StorageObjects) |-> FileInfo(StorageObjects[i], 0, FALSE)]
    ELSE << >>

\* PrjFileNameMatch for the expressions used here
PrjFileNameMatch(name, pattern) == pattern = "*" \/ pattern = name

\* EnumerationState{}
NewEnumerationState ==
    [entries |-> << >>, nextIndex |-> 0, isLoading |-> FALSE,
     isComplete |-> FALSE, callCount |-> 0]

\* the history of a scan: the names written, the names the platform refused,
\* whether the scan was restarted, and the name the last returned call was
\* told insufficient-buffer for ("" for none)
NewScan == [delivered |-> << >>, refused |-> {}, restarted |-> FALSE, stalled |-> ""]

(***************************************************************************)
(* The paging loop (while nextIndex < entries.size()): room is the number  *)
(* of entries the kernel's buffer still takes, bad the names for which     *)
(* PrjFillDirEntryBuffer fails with another error than                     *)
(* ERROR_INSUFFICIENT_BUFFER.  Yields the cursor, the names written and    *)
(* the names skipped on error.                                             *)
(***************************************************************************)
RECURSIVE FillLoop(_, _, _, _, _)
FillLoop(entries, nextIndex, pattern, room, bad) ==
    IF nextIndex >= Len(entries)
    THEN [nextIndex |-> nextIndex, written |-> << >>, refused |-> {},
          first |-> "", stalled |-> ""]
    ELSE LET name == entries[nextIndex + 1].name
             skip == FillLoop(entries, nextIndex + 1, pattern, room, bad)
         IN IF name = "" THEN skip
            ELSE IF ~PrjFileNameMatch(name, pattern) THEN skip
            ELSE IF name \in bad
                 THEN [skip EXCEPT !.refused = @ \cup {name}, !.first = name]
            ELSE IF room = 0
                 THEN [nextIndex |-> nextIndex, written |-> << >>, refused |-> {},
                       first |-> name, stalled |-> name]
            ELSE LET rest == FillLoop(entries, nextIndex + 1, pattern, room - 1, bad)
                 IN [rest EXCEPT !.written = <<name>> \o @, !.first = name]

\* a paging step that starts over from the first entry once the cursor has
\* reached the end
ProcessEntriesWrapping(st, sc, pattern, room, bad) ==
    IF st.nextIndex >= Len(st.entries)
    THEN [state |-> [st EXCEPT !.isComplete = TRUE, !.nextIndex = 0],
          scan |-> [sc EXCEPT !.stalled = ""], first |-> ""]
    ELSE LET filled == FillLoop(st.entries, st.nextIndex, pattern, room, bad)
         IN [state |-> [st EXCEPT !.nextIndex = filled.nextIndex],
             scan |-> [sc EXCEPT !.delivered = @ \o filled.written,
                                 !.refused = @ \cup filled.refused,
                                 !.stalled = filled.stalled],
             first |-> filled.first]

\* process_entries: what the session and its history are after the call
\* has served a page
ProcessEntries(st, sc, pattern, room, bad) ==
    IF st.nextIndex >= Len(st.entries)
    THEN [state |-> [st EXCEPT !.isComplete = TRUE],
          scan |-> [sc EXCEPT !.stalled = ""], first |-> ""]
    ELSE LET filled == FillLoop(st.entries, st.nextIndex, pattern, room, bad)
         IN [state |-> [st EXCEPT !.nextIndex = filled.nextIndex],
             scan |-> [sc EXCEPT !.delivered = @ \o filled.written,
                                 !.refused = @ \cup filled.refused,
                                 !.stalled = filled.stalled],
             first |-> filled.first]

\* the names PrjFillDirEntryBuffer may refuse in one call
BadNames == {{}, {"a"}}

Busy(id) == \E t \in Threads : enumId[t] = id

\* history of one step of a Get call: whether the call returned in the step,
\* whether the fuse of the call counter ended it, and the first name it
\* passed to PrjFillDirEntryBuffer ("" for none)
NoPage == [returned |-> FALSE, fused |-> FALSE, first |-> ""]
Page(fused, first) == [returned |-> TRUE, fused |-> fused, first |-> first]

StartDirectoryEnumerationCallback ==
    \E id \in EnumIds, dir \in EnumDirs, pattern \in SearchExpressions :
        /\ id \notin DOMAIN enumerationStates_
        /\ enumerationStates_' =
              [q \in DOMAIN enumerationStates_ \cup {id} |->
                  IF q = id THEN NewEnumerationState ELSE enumerationStates_[q]]
        /\ kernel' = [q \in DOMAIN kernel \cup {id} |->
                        IF q = id THEN [dir |-> dir, pattern |-> pattern]
                                  ELSE kernel[q]]
        /\ scan' = [q \in DOMAIN scan \cup {id} |->
                      IF q = id THEN NewScan ELSE scan[q]]
        /\ lastOp' = [op |-> "StartEnum", id |-> id]
        /\ UNCHANGED <<otherVars, cacheVars, now, lastSet, pc, enumId, dirFetches, readCount>>

\* the calls of a scan that are explored: its first MaxGetCalls calls, and
\* the calls from the last one below the ceiling of the fuse onwards
CallAllowed(callCount) ==
    \/ callCount < MaxGetCalls
    \/ /\ callCount >= MAX_CALLS_PER_ENUM - 1
       /\ callCount < MAX_CALLS_PER_ENUM + MaxGetCalls

\* a callback without the safety check
FuseOff(st) == FALSE

\* the fuse of the call counter
FuseBlown(st) == st.callCount > MAX_CALLS_PER_ENUM

\* the callback up to the point where it serves, waits or starts to load
GetDirectoryEnumerationCallback(t) ==
    \E id \in DOMAIN enumerationStates_, restart \in BOOLEAN :
        LET old == enumerationStates_[id]
            reset == IF restart
                     THEN [old EXCEPT !.nextIndex = 0, !.callCount = 0,
                                      !.entries = << >>, !.isComplete = FALSE,
                                      !.isLoading = FALSE]
                     ELSE old
            st == [reset EXCEPT !.callCount = @ + 1]
            sc == IF restart THEN [NewScan EXCEPT !.restarted = TRUE] ELSE scan[id]
        IN /\ pc[t] = "idle"
           /\ CallAllowed(reset.callCount)
           /\ UNCHANGED <<otherVars, cacheVars, now, lastSet, kernel, dirFetches, readCount>>
           /\ IF FuseBlown(st)
              THEN /\ enumerationStates_' = [enumerationStates_ EXCEPT ![id] = st]
                   /\ scan' = [scan EXCEPT ![id] = sc]
                   /\ lastOp' = [op |-> "GetEnum", id |-> id, restart |-> restart,
                                 page |-> Page(TRUE, "")]
                   /\ UNCHANGED <<pc, enumId>>
              ELSE IF st.entries = << >> /\ ~st.isComplete
              THEN /\ scan' = [scan EXCEPT ![id] = sc]
                   /\ lastOp' = [op |-> "GetEnum", id |-> id, restart |-> restart,
                                 page |-> NoPage]
                   /\ enumId' = [enumId EXCEPT ![t] = id]
                   /\ IF st.isLoading
                      THEN /\ enumerationStates_' =
                                 [enumerationStates_ EXCEPT ![id] = st]
                           /\ pc' = [pc EXCEPT ![t] = "wait"]
                      ELSE /\ enumerationStates_' =
                                 [enumerationStates_ EXCEPT
                                     ![id] = [st EXCEPT !.isLoading = TRUE]]
                           /\ pc' = [pc EXCEPT ![t] = "load"]
              ELSE \E room \in 0..MaxRoom, bad \in BadNames :
                     LET served == ProcessEntries(st, sc, kernel[id].pattern, room, bad)
                     IN /\ enumerationStates_' =
                              [enumerationStates_ EXCEPT ![id] = served.state]
                        /\ scan' = [scan EXCEPT ![id] = served.scan]
                        /\ lastOp' = [op |-> "GetEnum", id |-> id, restart |-> restart,
                                      page |-> Page(FALSE, served.first)]
                        /\ UNCHANGED <<pc, enumId>>

\* the loader, the mutex released: the cache, the object store, or a fetch
GetLoad(t) ==
    LET id == enumId[t]
        virtualPath == VirtualPath(kernel[id].dir)
        listing == GetDirectoryListing(virtualPath)
    IN /\ pc[t] = "load"
       /\ UNCHANGED <<otherVars, cacheVars, now, lastSet, kernel, enumId, readCount, scan>>
       /\ lastOp' = [op |-> "other"]
       /\ IF listing.found
          THEN /\ enumerationStates_' =
                     [enumerationStates_ EXCEPT ![id].entries = listing.data]
               /\ pc' = [pc EXCEPT ![t] = "relock"]
               /\ UNCHANGED dirFetches
          ELSE IF IsObjectsPath(virtualPath)
          THEN /\ enumerationStates_' =
                     [enumerationStates_ EXCEPT
                         ![id].entries = @ \o StorageEntries(virtualPath)]
               /\ pc' = [pc EXCEPT ![t] = "relock"]
               /\ UNCHANGED dirFetches
          ELSE /\ dirFetches.queued + dirFetches.resolved < MaxFetches
               /\ dirFetches' = [dirFetches EXCEPT !.queued = @ + 1]
               /\ pc' = [pc EXCEPT ![t] = "poll"]
               /\ UNCHANGED enumerationStates_

\* the polling loop finds the listing in the cache
GetPollHit(t) ==
    LET id == enumId[t]
        listing == GetDirectoryListing(VirtualPath(kernel[id].dir))
    IN /\ pc[t] = "poll"
       /\ listing.found
       /\ enumerationStates_' =
             [enumerationStates_ EXCEPT ![id].entries = listing.data]
       /\ pc' = [pc EXCEPT ![t] = "relock"]
       /\ lastOp' = [op |-> "other"]
       /\ UNCHANGED <<otherVars, cacheVars, now, lastSet, kernel, enumId, dirFetches,
                      readCount, scan>>

\* the polling loop runs into its deadline of 5 s
GetPollTimeout(t) ==
    /\ pc[t] = "poll"
    /\ pc' = [pc EXCEPT ![t] = "relock"]
    /\ lastOp' = [op |-> "other"]
    /\ UNCHANGED <<otherVars, cacheVars, now, lastSet, enumerationStates_, kernel, enumId,
                   dirFetches, readCount, scan>>

\* a loader that takes the mutex again and serves without ending the load
GetRelockKeepingLoading(t) ==
    \E room \in 0..MaxRoom, bad \in BadNames :
        LET id == enumId[t]
            st == [enumerationStates_[id] EXCEPT !.isComplete = TRUE]
            served == ProcessEntries(st, scan[id], kernel[id].pattern, room, bad)
        IN /\ pc[t] = "relock"
           /\ enumerationStates_' = [enumerationStates_ EXCEPT ![id] = served.state]
           /\ scan' = [scan EXCEPT ![id] = served.scan]
           /\ pc' = [pc EXCEPT ![t] = "idle"]
           /\ enumId' = [enumId EXCEPT ![t] = NoId]
           /\ lastOp' = [op |-> "GetEnumResume", id |-> id, restart |-> FALSE,
                         page |-> Page(FALSE, served.first)]
           /\ UNCHANGED <<otherVars, cacheVars, now, lastSet, kernel, dirFetches, readCount>>

\* the loader takes the mutex again, ends the load and serves
GetRelock(t) ==
    \E room \in 0..MaxRoom, bad \in BadNames :
        LET id == enumId[t]
            st == [enumerationStates_[id] EXCEPT !.isLoading = FALSE,
                                                 !.isComplete = TRUE]
            served == ProcessEntries(st, scan[id], kernel[id].pattern, room, bad)
        IN /\ pc[t] = "relock"
           /\ enumerationStates_' = [enumerationStates_ EXCEPT ![id] = served.state]
           /\ scan' = [scan EXCEPT ![id] = served.scan]
           /\ pc' = [pc EXCEPT ![t] = "idle"]
           /\ enumId' = [enumId EXCEPT ![t] = NoId]
           /\ lastOp' = [op |-> "GetEnumResume", id |-> id, restart |-> FALSE,
                         page |-> Page(FALSE, served.first)]
           /\ UNCHANGED <<otherVars, cacheVars, now, lastSet, kernel, dirFetches, readCount>>

\* a call that waited on enumerationCv_ finds isLoading cleared
GetWake(t) ==
    \E room \in 0..MaxRoom, bad \in BadNames :
        LET id == enumId[t]
            st == enumerationStates_[id]
            served == ProcessEntries(st, scan[id], kernel[id].pattern, room, bad)
        IN /\ pc[t] = "wait"
           /\ ~st.isLoading
           /\ pc' = [pc EXCEPT ![t] = "idle"]
           /\ enumId' = [enumId EXCEPT ![t] = NoId]
           /\ UNCHANGED <<otherVars, cacheVars, now, lastSet, kernel, dirFetches, readCount>>
           /\ IF st.entries # << >> \/ st.isComplete
              THEN /\ enumerationStates_' =
                         [enumerationStates_ EXCEPT ![id] = served.state]
                   /\ scan' = [scan EXCEPT ![id] = served.scan]
                   /\ lastOp' = [op |-> "GetEnumResume", id |-> id, restart |-> FALSE,
                                 page |-> Page(FALSE, served.first)]
              ELSE /\ lastOp' = [op |-> "GetEnumResume", id |-> id, restart |-> FALSE,
                                 page |-> Page(FALSE, "")]
                   /\ UNCHANGED <<enumerationStates_, scan>>

\* the kernel ends a session once no call of the session is running
EndDirectoryEnumerationCallback ==
    \E id \in DOMAIN enumerationStates_ :
        /\ ~Busy(id)
        /\ enumerationStates_' =
              [q \in DOMAIN enumerationStates_ \ {id} |-> enumerationStates_[q]]
        /\ kernel' = [q \in DOMAIN kernel \ {id} |-> kernel[q]]
        /\ scan' = [q \in DOMAIN scan \ {id} |-> scan[q]]
        /\ lastOp' = [op |-> "EndEnum", id |-> id]
        /\ UNCHANGED <<otherVars, cacheVars, now, lastSet, pc, enumId, dirFetches, readCount>>

(***************************************************************************)
(* The host side (IFSProjFSProvider.js).                                   *)
(***************************************************************************)
RECURSIVE DropLeadingSlashes(_)
DropLeadingSlashes(path) ==
    IF path # << >> /\ Head(path) = "/" THEN DropLeadingSlashes(Tail(path)) ELSE path

\* .replace(/\/+/g, '/')
RECURSIVE CollapseSlashes(_)
CollapseSlashes(path) ==
    IF Len(path) < 2 THEN path
    ELSE IF path[1] = "/" /\ path[2] = "/" THEN CollapseSlashes(Tail(path))
    ELSE <<Head(path)>> \o CollapseSlashes(Tail(path))

DriveLetters == {"C:"}

normalizePath(inputPath) ==
    IF inputPath = << >> THEN Root
    ELSE LET slashed == ReplaceBackslashes(inputPath)
             noDrive == IF Head(slashed) \in DriveLetters THEN Tail(slashed)
                                                          ELSE slashed
             inner == DropLeadingSlashes(noDrive)
             noMount == IF inner # << >> /\ Head(inner) = "OneFiler"
                        THEN Tail(inner) ELSE noDrive
             collapsed == CollapseSlashes(noMount)
             rooted == IF collapsed = << >> \/ Head(collapsed) # "/"
                       THEN <<"/">> \o collapsed ELSE collapsed
         IN IF Len(rooted) > 1 /\ rooted[Len(rooted)] = "/"
            THEN SubSeq(rooted, 1, Len(rooted) - 1)
            ELSE rooted

\* readDirectory's loop of setCachedFileInfo over the entries it cached (the
\* sizes used here are below 2^32, so that Uint32Value leaves them unchanged)
RECURSIVE SetCachedFileInfos(_, _, _, _)
SetCachedFileInfos(c, normalizedPath, entries, i) ==
    IF i > Len(entries) THEN c
    ELSE LET entry == entries[i]
             entryPath == normalizePath(normalizedPath \o <<"/", entry.name>>)
             info == FileInfo(entry.name, entry.size, entry.isDirectory)
         IN SetCachedFileInfos(SetFileInfo(c, entryPath, info),
                               normalizedPath, entries, i + 1)

\* readDirectory(path) when the logical filesystem yields the children
readDirectory(c, path, children) ==
    LET normalizedPath == normalizePath(path)
    IN SetCachedFileInfos(SetDirectoryListing(c, normalizedPath, children),
                          normalizedPath, children, 1)

\* the host runs readDirectory for a fetch: the logical filesystem yields
\* children, which are cached, or it fails and nothing is cached
HostReadDirectory ==
    /\ dirFetches.queued > 0
    /\ dirFetches' = [queued |-> dirFetches.queued - 1,
                      resolved |-> dirFetches.resolved + 1]
    /\ \/ \E children \in ListingValues :
            /\ readCount < MaxReads
            /\ Becomes(readDirectory(Cache, Root, children))
            /\ readCount' = readCount + 1
       \/ UNCHANGED <<cacheVars, readCount>>
    /\ lastOp' = [op |-> "other"]
    /\ UNCHANGED <<otherVars, now, lastSet, enumerationStates_, kernel, pc, enumId, scan>>

\* onResolve of FetchDirectoryListing calls the listing-updated callback
OnDirectoryListingUpdated ==
    /\ dirFetches.resolved > 0
    /\ dirFetches' = [dirFetches EXCEPT !.resolved = @ - 1]
    /\ enumerationStates_' =
          [id \in DOMAIN enumerationStates_ |->
              [enumerationStates_[id] EXCEPT !.isLoading = FALSE]]
    /\ lastOp' = [op |-> "OnDirectoryListingUpdated"]
    /\ UNCHANGED <<otherVars, cacheVars, now, lastSet, kernel, pc, enumId, readCount, scan>>

EmptyCache ==
    [fileInfo |-> << >>, directory |-> << >>, content |-> << >>,
     ttl |-> DefaultTTL, inserts |-> InitialInserts]

\* mount() has run readDirectory('/') before the provider starts: it cached
\* the listing, or it failed and cached nothing
InitEnumeration ==
    /\ now = 0
    /\ \E c \in {EmptyCache} \cup
                {readDirectory(EmptyCache, Root, children) : children \in ListingValues} :
          /\ fileInfoCache = c.fileInfo
          /\ directoryCache = c.directory
          /\ contentCache = c.content
          /\ ttl_ = c.ttl
          /\ insertCount = c.inserts
    /\ lastSet = NoHistory
    /\ lastOp = [op |-> "init"]
    /\ InitEnum
    /\ InitData
    /\ InitNotify
    /\ InitLife

NextEnumeration ==
    \/ StartDirectoryEnumerationCallback
    \/ \E t \in Threads : GetDirectoryEnumerationCallback(t)
    \/ \E t \in Threads : GetLoad(t)
    \/ \E t \in Threads : GetPollHit(t)
    \/ \E t \in Threads : GetPollTimeout(t)
    \/ \E t \in Threads : GetRelock(t)
    \/ \E t \in Threads : GetWake(t)
    \/ EndDirectoryEnumerationCallback
    \/ HostReadDirectory
    \/ OnDirectoryListingUpdated

SpecEnum == InitEnumeration /\ [][NextEnumeration]_vars

\* A session close to the ceiling of the fuse: the listing of the root was
\* cached, the session has captured it with a first Get call whose buffer
\* was too small for an entry, and the kernel has repeated that call until
\* the counter stands one below the ceiling; the cache still holds the
\* listing, or the host has cleared it since.
InitNearCeiling ==
    /\ now = 0
    /\ \E children \in ListingValues, pattern \in SearchExpressions,
          cleared \in BOOLEAN :
          LET c == IF cleared THEN InvalidateAll(readDirectory(EmptyCache, Root, children))
                             ELSE readDirectory(EmptyCache, Root, children)
              loaded == [NewEnumerationState EXCEPT !.entries = children,
                                                   !.isComplete = TRUE]
              served == ProcessEntries(loaded, NewScan, pattern, 0, {})
          IN /\ fileInfoCache = c.fileInfo
             /\ directoryCache = c.directory
             /\ contentCache = c.content
             /\ ttl_ = c.ttl
             /\ insertCount = c.inserts
             /\ enumerationStates_ =
                   [id \in EnumIds |->
                       [served.state EXCEPT !.callCount = MAX_CALLS_PER_ENUM - 1]]
             /\ kernel = [id \in EnumIds |-> [dir |-> << >>, pattern |-> pattern]]
             /\ scan = [id \in EnumIds |-> served.scan]
    /\ lastSet = NoHistory
    /\ lastOp = [op |-> "init"]
    /\ pc = [t \in Threads |-> "idle"]
    /\ enumId = [t \in Threads |-> NoId]
    /\ dirFetches = [queued |-> 0, resolved |-> 0]
    /\ readCount = 0
    /\ InitData
    /\ InitNotify
    /\ InitLife

SpecFuse == InitNearCeiling /\ [][NextEnumeration]_vars

(***************************************************************************)
(* Properties of the enumeration.                                          *)
(***************************************************************************)
\* C1: across Get calls that carry no restart-scan flag the cursor of a
\* session (nextIndex) never decreases: every step other than a Get call
\* with the restart-scan flag on that session leaves its cursor where it was
\* or moves it forward.
C1_CursorNeverRegresses ==
    [][\A id \in DOMAIN enumerationStates_ \cap DOMAIN enumerationStates_' :
          \/ /\ lastOp'.op = "GetEnum"
             /\ lastOp'.id = id
             /\ lastOp'.restart
          \/ enumerationStates_'[id].nextIndex >= enumerationStates_[id].nextIndex]_vars

\* a session has been paged through to its end by several calls and has
\* delivered both entries
C1_Witness ==
    \E id \in DOMAIN enumerationStates_ :
        /\ enumerationStates_[id].nextIndex = 2
        /\ enumerationStates_[id].callCount >= 2
        /\ Len(scan[id].delivered) = 2
        /\ lastOp.op = "GetEnum" /\ ~lastOp.restart

IsPrefix(s, t) == Len(s) <= Len(t) /\ SubSeq(t, 1, Len(s)) = s

\* the names of the captured entries that match the pattern, in captured
\* order, without the empty names and the names the kernel refused
Filtered(entries, pattern, refused) ==
    LET names == [i \in 1..Len(entries) |-> entries[i].name]
    IN SelectSeq(names, LAMBDA n : /\ n # ""
                                   /\ PrjFileNameMatch(n, pattern)
                                   /\ n \notin refused)

\* C2: in every session that has had no restart-scan, the names written to
\* the kernel's buffers by its Get calls, in the order written, are a prefix
\* of the captured listing filtered by the search pattern: captured order,
\* nothing twice, nothing before a delivered entry left out (entries the
\* platform refused with an error are skipped by the paging rule and are
\* not counted as left out).
C2_OutputIsPrefixOfCaptured ==
    \A id \in DOMAIN enumerationStates_ :
        ~scan[id].restarted =>
        IsPrefix(scan[id].delivered,
                 Filtered(enumerationStates_[id].entries, kernel[id].pattern,
                          scan[id].refused))

\* a Get call of session id returns in this step, served by the paging loop
\* or by the wait, not ended by the fuse of the call counter
Returns(id) ==
    /\ lastOp'.op \in {"GetEnum", "GetEnumResume"}
    /\ lastOp'.id = id
    /\ lastOp'.page.returned
    /\ ~lastOp'.page.fused

\* C19: once a session that has had no restart-scan has finished its load
\* and holds captured entries, no step changes them or their order: not a
\* re-caching of the listing by the host, not the passing of time, not a
\* step of any callback.  (Only a Get call with the restart-scan flag on the
\* session may replace them.)
C19_SnapshotIsStable ==
    [][\A id \in DOMAIN enumerationStates_ \cap DOMAIN enumerationStates_' :
          (/\ enumerationStates_[id].isComplete
           /\ enumerationStates_[id].entries # << >>
           /\ ~scan'[id].restarted)
             => enumerationStates_'[id].entries = enumerationStates_[id].entries]_vars

\* a Get call enters session id in this step
Enters(id) == lastOp'.op = "GetEnum" /\ lastOp'.id = id

\* the call that made the step returned at once and wrote no entry
ReturnsEmpty(id) ==
    /\ lastOp'.page.returned
    /\ lastOp'.page.first = ""
    /\ scan'[id].delivered = scan[id].delivered
    /\ pc' = pc

\* C15 as stated: once the call counter of a session has exceeded the
\* ceiling, every further Get call of the session returns success and
\* writes no entry.
C15_FuseStaysBlown ==
    [][\A id \in DOMAIN enumerationStates_ :
          (enumerationStates_[id].callCount > MAX_CALLS_PER_ENUM /\ Enters(id))
             => ReturnsEmpty(id)]_vars

\* C15, amended: once the call counter of a session has exceeded the
\* ceiling, every further Get call of the session that carries no
\* restart-scan flag returns success and writes no entry, and leaves the
\* cursor and the captured entries as they were; a Get call with the
\* restart-scan flag resets the counter and loads and serves again.
C15_FuseStaysBlownUntilRestart ==
    [][\A id \in DOMAIN enumerationStates_ :
          (enumerationStates_[id].callCount > MAX_CALLS_PER_ENUM /\ Enters(id))
             => IF lastOp'.restart
                THEN /\ enumerationStates_'[id].callCount = 1
                     /\ ~lastOp'.page.returned
                ELSE /\ ReturnsEmpty(id)
                     /\ lastOp'.page.fused
                     /\ enumerationStates_'[id] =
                           [enumerationStates_[id] EXCEPT !.callCount = @ + 1]]_vars

\* the counter stands two above the ceiling: the last call entered a session
\* whose counter had exceeded the ceiling, and the fuse ended it, with
\* entries still to deliver
C15_Witness ==
    \E id \in DOMAIN enumerationStates_ :
        /\ enumerationStates_[id].callCount = MAX_CALLS_PER_ENUM + 2
        /\ enumerationStates_[id].nextIndex < Len(enumerationStates_[id].entries)
        /\ lastOp.op = "GetEnum" /\ lastOp.id = id /\ ~lastOp.restart
        /\ lastOp.page.fused

\* C14: in a session that has had no restart-scan, a Get call that is told
\* insufficient-buffer for an entry returns with the cursor on that entry
\* (the cursor has not moved past it), and the next Get call of the session
\* to return passes that same entry to the kernel buffer first.  (A call
\* ended by the call-count fuse offers nothing and is left out.)
C14_StalledEntryIsRetried ==
    [][\A id \in DOMAIN scan \cap DOMAIN scan' :
          (Returns(id) /\ ~scan'[id].restarted) =>
             /\ scan'[id].stalled # "" =>
                   LET st == enumerationStates_'[id]
                   IN /\ st.nextIndex < Len(st.entries)
                      /\ st.entries[st.nextIndex + 1].name = scan'[id].stalled
             /\ scan[id].stalled # "" => lastOp'.page.first = scan[id].stalled]_vars


\* the listings a load can capture for a directory: what the object store
\* lists, or what the host caches
SourceListings(virtualPath) ==
    IF IsObjectsPath(virtualPath) THEN {StorageEntries(virtualPath)}
                                  ELSE ListingValues

\* C26: a Get call with the restart-scan flag, whatever the session is
\* doing (another call of the session may be loading), sets the cursor to
\* 0 and empties the captured list before it goes on to load, and the names
\* written to the kernel's buffers from then on are, in order, the first
\* names of one listing of the directory captured anew.
C26_RestartScanStartsOver ==
    [][\A id \in DOMAIN enumerationStates_' :
          /\ (Enters(id) /\ lastOp'.restart)
                => /\ enumerationStates_'[id].nextIndex = 0
                   /\ enumerationStates_'[id].entries = << >>
                   /\ ~enumerationStates_'[id].isComplete
                   /\ scan'[id].delivered = << >>
          /\ scan'[id].restarted
                => \E listing \in SourceListings(VirtualPath(kernel'[id].dir)) :
                      IsPrefix(scan'[id].delivered,
                               Filtered(listing, kernel'[id].pattern,
                                        scan'[id].refused))]_vars


\* the step belongs to a Get call of session id: the call enters or
\* returns, or its loader moves on
StepOfGet(id) ==
    \/ lastOp'.op \in {"GetEnum", "GetEnumResume"} /\ lastOp'.id = id
    \/ \E t \in Threads : enumId[t] = id /\ pc[t] \in {"load", "poll"} /\ pc'[t] # pc[t]

\* C27: a session comes into the session map by its
\* StartDirectoryEnumeration only and leaves it by its
\* EndDirectoryEnumeration only, and while it is in the map its state
\* (captured list, cursor, flags, call counter) is changed by steps of Get
\* calls of that session only.
C27_SessionLifetime ==
    [][\A id \in EnumIds :
          /\ (id \notin DOMAIN enumerationStates_ /\ id \in DOMAIN enumerationStates_')
                => lastOp' = [op |-> "StartEnum", id |-> id]
          /\ (id \in DOMAIN enumerationStates_ /\ id \notin DOMAIN enumerationStates_')
                => lastOp' = [op |-> "EndEnum", id |-> id]
          /\ (/\ id \in DOMAIN enumerationStates_ \cap DOMAIN enumerationStates_'
              /\ enumerationStates_'[id] # enumerationStates_[id])
                => StepOfGet(id)]_vars


\* the Get calls that are loading the listing of session id
Loaders(id) == {t \in Threads : enumId[t] = id /\ pc[t] \in {"load", "poll", "relock"}}

\* C28: at no time are two Get calls loading the listing of one session,
\* and a Get call that found the session loading and waited goes on only
\* when no call is loading the session any more and the load has finished,
\* whatever restart-scan calls and listing-updated notifications come in
\* between.
C28_OneLoaderPerSession ==
    [][\A id \in DOMAIN enumerationStates_ :
          /\ Cardinality(Loaders(id)') <= 1
          /\ \A t \in Threads :
                (enumId[t] = id /\ pc[t] = "wait" /\ pc'[t] = "idle")
                   => /\ Loaders(id) = {}
                      /\ enumerationStates_[id].isComplete]_vars


\* the call of thread t is between lock.unlock() and lock.lock() of the
\* loader: it runs without enumerationMutex_
MutexReleased(t) == pc[t] \in {"load", "poll"}

\* C29: a step that a Get call makes while it does not hold the
\* enumeration mutex (the loader between its unlock and its re-lock)
\* touches no session: captured list, cursor and flags of every session
\* are after the step what they were before it.
C29_SessionAccessUnderMutex ==
    [][\A t \in Threads :
          (MutexReleased(t) /\ pc'[t] # pc[t])
             => enumerationStates_' = enumerationStates_]_vars

\* the kernel lists the root with '*' and its buffers take every name
\* offered
WholePages ==
    /\ \A id \in DOMAIN kernel' : kernel'[id] = [dir |-> << >>, pattern |-> "*"]
    /\ \A id \in DOMAIN scan' : scan'[id].refused = {} /\ scan'[id].stalled = ""

\* the steps of a callback thread that is inside a Get call
GetStep(t) ==
    /\ GetLoad(t) \/ GetPollHit(t) \/ GetPollTimeout(t) \/ GetRelock(t) \/ GetWake(t)
    /\ WholePages

NextWait ==
    \/ StartDirectoryEnumerationCallback /\ WholePages
    \/ \E t \in Threads : GetDirectoryEnumerationCallback(t) /\ WholePages
    \/ \E t \in Threads : GetLoad(t) /\ WholePages
    \/ \E t \in Threads : GetPollHit(t) /\ WholePages
    \/ \E t \in Threads : GetPollTimeout(t) /\ WholePages
    \/ \E t \in Threads : GetRelock(t) /\ WholePages
    \/ \E t \in Threads : GetWake(t) /\ WholePages
    \/ EndDirectoryEnumerationCallback
    \/ HostReadDirectory
    \/ OnDirectoryListingUpdated

SpecWait == InitEnumeration /\ [][NextWait]_vars

\* weak fairness of HostReadDirectory, its enabling condition written out:
\* the host's event loop runs the readDirectory calls queued for it
HostReadDirectoryRuns ==
    \/ []<>(dirFetches.queued = 0)
    \/ []<><<HostReadDirectory>>_vars

\* a callback thread that has entered a call runs it to its end: the loader
\* reads and its polling loop ends at the deadline at the latest.  A thread
\* that waits on enumerationCv_ is notified whenever a load ends and then
\* has the mutex before the kernel's next call of the session has it, so
\* that it is not passed over for ever by loads that follow each other
\* (nor is a loader held up for ever by the bound on the fetches in
\* flight, which FetchDirectoryListing does not have).  The host's event
\* loop runs what is queued for it.
SpecWaitFair ==
    /\ SpecWait
    /\ \A t \in Threads : SF_vars(GetStep(t))
    /\ HostReadDirectoryRuns
    /\ WF_vars(OnDirectoryListingUpdated)

EndedEmpty(st) == st.isComplete /\ st.entries = << >> /\ ~st.isLoading

\* C38, for a session whose scan has not been restarted: a load that ends
\* without a listing leaves the session complete with an empty captured
\* list; from then on every Get call of the session without restart-scan
\* returns success with no entries, whatever has been cached since, the
\* captured list stays empty and no call becomes a loader: only a call
\* with restart-scan makes the session load again.
C38_EmptyLoadIsFinal ==
    [][\A id \in DOMAIN enumerationStates_ \cap DOMAIN enumerationStates_' :
          LET st == enumerationStates_[id]
              after == enumerationStates_'[id]
              restarted == /\ lastOp'.op = "GetEnum"
                           /\ lastOp'.id = id
                           /\ lastOp'.restart
          IN /\ (/\ \E t \in Threads : pc[t] = "relock" /\ pc'[t] = "idle"
                                          /\ enumId[t] = id
                 /\ st.entries = << >>
                 /\ ~scan[id].restarted)
                   => /\ EndedEmpty(after)
                      /\ lastOp'.page = Page(FALSE, "")
             /\ (EndedEmpty(st) /\ ~scan[id].restarted /\ ~restarted)
                   => /\ after.entries = << >>
                      /\ after.isComplete
                      /\ \A t \in Threads : pc'[t] = "load" => pc[t] = "load"
                      /\ (lastOp'.op = "GetEnum" /\ lastOp'.id = id)
                            => lastOp'.page \in {Page(FALSE, ""), Page(TRUE, "")}]_vars

(***************************************************************************)
(* File data: GetFileDataCallback, the pending requests, the host's        *)
(* readFile and CompletePendingFileRequests.  The clock and the TTL stay   *)
(* as they are; the bridge is set and its readFile callback is registered. *)
(***************************************************************************)
MaxCommands == 2        \* GetFileData commands the kernel sends

\* callbackData->FilePathName of the files read (relative paths): a file of
\* the logical filesystem, an object on disk, an object that is not on disk
DataPaths ==
    { <<"a">>,
      <<"objects", "\\", "h1", "\\", "raw.txt">>,
      <<"objects", "\\", "h2", "\\", "raw.txt">> }

ByteOffsets == {2, 3}
Lengths == {2}

EmptyContent == Content("", 0)
NoContent == Content("none", -1)    \* readFile yields null, or it throws

\* what fileSystem.readFile can yield for a file
ReadOutcomes == {SmallContent, EmptyContent, BigContent, NoContent}

\* the text of an object file on disk
ObjectContent == Content("obj", 5)

\* what PrjAllocateAlignedBuffer and PrjWriteFileData can do
PlatformOutcomes == {"ok", "nobuffer", "writefail"}

\* virtualPath.compare(0, 9, "/objects/") == 0
IsObjectPath(virtualPath) ==
    /\ Len(virtualPath) >= 3
    /\ virtualPath[1] = "/" /\ virtualPath[2] = "objects" /\ virtualPath[3] = "/"

\* the component after /objects/, where it is followed by '/' or the end
ExtractHashFromPath(virtualPath) ==
    IF Len(virtualPath) >= 4 /\ (Len(virtualPath) = 4 \/ virtualPath[5] = "/")
    THEN virtualPath[4] ELSE ""

ReadObject(hash) ==
    IF \E i \in DOMAIN StorageObjects : StorageObjects[i] = hash
    THEN Some(ObjectContent) ELSE NullOpt

\* a store in which no object file is found
ReadVirtualPathAbsent(virtualPath) == NullOpt

\* of the virtual files of an object, raw.txt is the one read here
ReadVirtualPath(virtualPath) ==
    IF ~IsObjectPath(virtualPath) THEN NullOpt
    ELSE IF ExtractHashFromPath(virtualPath) = "" THEN NullOpt
    ELSE IF virtualPath[Len(virtualPath)] = "raw.txt"
              /\ virtualPath[Len(virtualPath) - 1] = "/"
         THEN ReadObject(ExtractHashFromPath(virtualPath))
    ELSE NullOpt

Min(a, b) == IF a < b THEN a ELSE b

\* a delivery that writes as many bytes as were asked for
DeliverUnclipped(content, byteOffset, length, platform) ==
    IF byteOffset >= content.size
    THEN [hr |-> "S_OK", id |-> "", offset |-> byteOffset, bytes |-> 0]
    ELSE IF platform = "nobuffer"
    THEN [hr |-> "E_OUTOFMEMORY", id |-> "", offset |-> byteOffset, bytes |-> 0]
    ELSE [hr |-> IF platform = "ok" THEN "S_OK" ELSE "E_FAIL",
          id |-> content.id, offset |-> byteOffset, bytes |-> length]

\* what a callback or a completion hands to the kernel for content, a range
\* and the platform's behaviour: the HRESULT and the bytes written
Deliver(content, byteOffset, length, platform) ==
    IF byteOffset >= content.size
    THEN [hr |-> "S_OK", id |-> "", offset |-> byteOffset, bytes |-> 0]
    ELSE IF platform = "nobuffer"
    THEN [hr |-> "E_OUTOFMEMORY", id |-> "", offset |-> byteOffset, bytes |-> 0]
    ELSE [hr |-> IF platform = "ok" THEN "S_OK" ELSE "E_FAIL",
          id |-> content.id, offset |-> byteOffset,
          bytes |-> Min(length, content.size - byteOffset)]

NotFound(byteOffset) ==
    [hr |-> "ERROR_FILE_NOT_FOUND", id |-> "", offset |-> byteOffset, bytes |-> 0]

\* GetFileContent on a cache value
GetFileContentOf(c, path) ==
    IF path \in DOMAIN c.content /\ IsValid(c.content[path], c.ttl)
    THEN Some(c.content[path].data) ELSE NullOpt

\* content && !content->data.empty()
Usable(content) == content.found /\ content.data.size > 0

\* CompletePendingFileRequests' normalisation of a path for the comparison
NormalizeForCompare(path) ==
    LET slashed == ReplaceBackslashes(path)
    IN IF slashed # << >> /\ Head(slashed) # "/" THEN <<"/">> \o slashed
                                                  ELSE slashed

\* a comparison of the paths as they are, without the normalisation
MatchingExact(pending, virtualPath) ==
    {cmd \in DOMAIN pending : pending[cmd].virtualPath = virtualPath}

\* the commands CompletePendingFileRequests(virtualPath) completes
Matching(pending, virtualPath) ==
    {cmd \in DOMAIN pending :
        NormalizeForCompare(pending[cmd].virtualPath) = NormalizeForCompare(virtualPath)}

\* what one request is completed with: the cache is asked for the path as
\* it came in
CompletionOf(c, request, virtualPath, platform) ==
    LET content == GetFileContentOf(c, virtualPath)
    IN IF Usable(content)
       THEN Deliver(content.data, request.byteOffset, request.length, platform)
       ELSE NotFound(request.byteOffset)

\* history: the content the cache held for the path of a completion call
CachedFor(c, virtualPath) ==
    IF GetFileContentOf(c, virtualPath).found
    THEN GetFileContentOf(c, virtualPath).data ELSE NoContent

\* a completion that leaves the completed commands in the map
KeepCompleted(pending, completedCommands) == pending

RemoveCompleted(pending, completedCommands) ==
    [cmd \in DOMAIN pending \ completedCommands |-> pending[cmd]]

\* ProjFSProvider::CompletePendingFileRequests, run on cache c; resolved is
\* the content readFile had in hand when it made the call, by the fetch
\* that made it (0 for a call of the application)
CompletePendingFileRequests(c, virtualPath, platform, resolved, by) ==
    LET completedCommands == Matching(pendingFileRequests_, virtualPath)
    IN /\ completions' =
             [cmd \in DOMAIN completions |->
                 IF cmd \in completedCommands THEN completions[cmd] + 1
                                              ELSE completions[cmd]]
       /\ lastCompleted' =
             [cmd \in completedCommands |->
                 [result |-> CompletionOf(c, pendingFileRequests_[cmd],
                                          virtualPath, platform[cmd]),
                  request |-> pendingFileRequests_[cmd],
                  platform |-> platform[cmd],
                  cached |-> CachedFor(c, virtualPath),
                  resolved |-> resolved, by |-> by]]
       /\ pendingFileRequests_' = RemoveCompleted(pendingFileRequests_, completedCommands)

\* history of a GetFileData call that is served at once: where the content
\* came from, the content, the range asked for and what the kernel was given
Served(virtualPath, from, content, byteOffset, length, platform) ==
    [op |-> "GetFileData", path |-> virtualPath, from |-> from, content |-> content,
     byteOffset |-> byteOffset, length |-> length, platform |-> platform,
     result |-> Deliver(content, byteOffset, length, platform)]

\* the callback up to the point where it has found neither cached content
\* nor an object on disk
GetFileDataCallback(t) ==
    /\ dataCall[t] = NoCall
    /\ nextCommandId <= MaxCommands
    /\ \E relativePath \in DataPaths, byteOffset \in ByteOffsets, length \in Lengths :
          LET virtualPath == VirtualPath(relativePath)
              cached == GetFileContent(virtualPath)
              onDisk == ReadVirtualPath(virtualPath)
          IN IF Usable(cached)
             THEN /\ \E platform \in PlatformOutcomes :
                        /\ returned' = returned @@
                              (nextCommandId :>
                                  [hr |-> Deliver(cached.data, byteOffset, length, platform).hr])
                        /\ lastOp' = Served(virtualPath, "cache", cached.data,
                                             byteOffset, length, platform)
                  /\ UNCHANGED dataCall
             ELSE IF IsObjectPath(virtualPath) /\ onDisk.found
             THEN /\ \E platform \in PlatformOutcomes :
                        /\ returned' = returned @@
                              (nextCommandId :>
                                  [hr |-> Deliver(onDisk.data, byteOffset, length, platform).hr])
                        /\ lastOp' = Served(virtualPath, "disk", onDisk.data,
                                             byteOffset, length, platform)
                  /\ UNCHANGED dataCall
             ELSE /\ dataCall' = [dataCall EXCEPT ![t] =
                        [cmd |-> nextCommandId, virtualPath |-> virtualPath,
                         byteOffset |-> byteOffset, length |-> length]]
                  /\ lastOp' = [op |-> "other"]
                  /\ UNCHANGED returned
    /\ nextCommandId' = nextCommandId + 1
    /\ UNCHANGED <<cacheVars, now, lastSet, enumVars, notifyVars, lifeVars,
                   pendingFileRequests_, contentFetches, completions,
                   lastCompleted>>

\* a map of pending requests keyed by the path instead of the command id
StorePendingByPath(pending, call) ==
    [cmd \in {c \in DOMAIN pending : pending[c].virtualPath # call.virtualPath}
               \cup {call.cmd} |->
        IF cmd = call.cmd THEN [virtualPath |-> call.virtualPath,
                                byteOffset |-> call.byteOffset,
                                length |-> call.length,
                                virtualizationContext |-> virtualizationContext_]
                          ELSE pending[cmd]]

\* pendingFileRequests_[callbackData->CommandId] = request; the request
\* keeps callbackData->NamespaceVirtualizationContext, the handle of the
\* instance that is virtualizing
StorePending(pending, call) ==
    [cmd \in DOMAIN pending \cup {call.cmd} |->
        IF cmd = call.cmd THEN [virtualPath |-> call.virtualPath,
                                byteOffset |-> call.byteOffset,
                                length |-> call.length,
                                virtualizationContext |-> virtualizationContext_]
                          ELSE pending[cmd]]

\* asyncBridge_->FetchFileContent(virtualPath): a call of the host's
\* readFile is queued
FetchFileContent(fetches, call) ==
    fetches @@ (call.cmd :> [path |-> call.virtualPath, stage |-> "queued",
                             result |-> NoContent])

\* the rest of the callback: the request is stored under the mutex, the
\* fetch is queued and the callback returns ERROR_IO_PENDING
GetFileDataStore(t) ==
    /\ dataCall[t] # NoCall
    /\ LET call == dataCall[t]
       IN /\ pendingFileRequests_' = StorePending(pendingFileRequests_, call)
          /\ contentFetches' = FetchFileContent(contentFetches, call)
          /\ returned' = returned @@ (call.cmd :> [hr |-> "ERROR_IO_PENDING"])
          /\ completions' = completions @@ (call.cmd :> 0)
    /\ dataCall' = [dataCall EXCEPT ![t] = NoCall]
    /\ lastOp' = [op |-> "other"]
    /\ UNCHANGED <<cacheVars, now, lastSet, enumVars, notifyVars, lifeVars, nextCommandId,
                   lastCompleted>>

\* the host's readFile for a queued fetch.  For a path under /objects it
\* returns null at once.  Otherwise the logical filesystem yields content,
\* which is cached and followed by the completion of the pending requests,
\* or it yields nothing (null, no content, empty text) or throws.
readFile ==
    \E f \in DOMAIN contentFetches :
        /\ contentFetches[f].stage = "queued"
        /\ LET normalizedPath == normalizePath(contentFetches[f].path)
           IN \E outcome \in ReadOutcomes :
                 /\ IsObjectPath(normalizedPath) => outcome = NoContent
                 /\ contentFetches' = [contentFetches EXCEPT
                        ![f] = [path |-> @.path, stage |-> "resolved",
                                result |-> outcome]]
                 /\ IF outcome = NoContent
                    THEN UNCHANGED <<cacheVars, pendingFileRequests_, completions,
                                     lastCompleted>>
                    ELSE \E platform \in [Matching(pendingFileRequests_, normalizedPath)
                                             -> PlatformOutcomes] :
                            LET c == SetFileContent(Cache, normalizedPath, outcome)
                            IN /\ Becomes(c)
                               /\ CompletePendingFileRequests(c, normalizedPath,
                                                              platform, outcome, f)
        /\ lastOp' = [op |-> "other"]
        /\ UNCHANGED <<now, lastSet, enumVars, notifyVars, lifeVars, dataCall,
                       nextCommandId, returned>>

\* onResolve of FetchFileContent: a Buffer is cached under the path fetched
FetchFileContentResolved ==
    \E f \in DOMAIN contentFetches :
        /\ contentFetches[f].stage = "resolved"
        /\ IF contentFetches[f].result # NoContent
           THEN Becomes(SetFileContent(Cache, contentFetches[f].path,
                                       contentFetches[f].result))
           ELSE UNCHANGED cacheVars
        /\ contentFetches' = [g \in DOMAIN contentFetches \ {f} |-> contentFetches[g]]
        /\ lastOp' = [op |-> "other"]
        /\ UNCHANGED <<now, lastSet, enumVars, notifyVars, lifeVars, pendingFileRequests_,
                       dataCall, nextCommandId, returned, completions,
                       lastCompleted>>

\* the paths the application passes to completePendingFileRequests
ApiPaths == {PathA, <<"a">>}

\* IFSProjFSProvider.completePendingFileRequests(path), called by the
\* application (a call that finds the map empty runs no iteration of the
\* loop and is left out)
completePendingFileRequests ==
    \E path \in ApiPaths :
      \E platform \in [Matching(pendingFileRequests_, path) -> PlatformOutcomes] :
        /\ pendingFileRequests_ # << >>
        /\ CompletePendingFileRequests(Cache, path, platform, NoContent, 0)
        /\ lastOp' = [op |-> "CompletePendingFileRequests", path |-> path]
        /\ UNCHANGED <<cacheVars, now, lastSet, enumVars, notifyVars, lifeVars, dataCall,
                       contentFetches, nextCommandId, returned>>

NextData ==
    \/ \E t \in Threads : GetFileDataCallback(t)
    \/ \E t \in Threads : GetFileDataStore(t)
    \/ readFile
    \/ FetchFileContentResolved
    \/ completePendingFileRequests

SpecData == InitCache /\ [][NextData]_vars

\* the host's event loop does not stop while a call or a continuation is
\* queued, and a callback that has started runs to its end; nothing obliges
\* the kernel to read or the application to call completePendingFileRequests
SpecDataFair ==
    /\ SpecData
    /\ WF_vars(readFile \/ FetchFileContentResolved)
    /\ WF_vars(\E t \in Threads : GetFileDataStore(t))

(***************************************************************************)
(* Properties of file data delivery.                                       *)
(***************************************************************************)

\* C3: no pending file request is completed twice.  For every command id
\* stored by GetFileData the completion primitive has been invoked at most
\* once, and once it has been invoked the pending map no longer holds the
\* command id.
C3_CompletedAtMostOnce ==
    \A cmd \in DOMAIN completions :
        /\ completions[cmd] <= 1
        /\ completions[cmd] = 1 => cmd \notin DOMAIN pendingFileRequests_

\* two commands were stored and each was completed once, the second by
\* the readFile of its own fetch in a call that came after the completion
\* of the first
C3_Witness ==
    \E c1, c2 \in DOMAIN completions :
        /\ c1 # c2
        /\ completions[c1] = 1 /\ completions[c2] = 1
        /\ DOMAIN lastCompleted = {c2}
        /\ lastCompleted[c2].by = c2
        /\ lastCompleted[c2].result.hr = "S_OK"
        /\ pendingFileRequests_ = << >>

\* C4: every GetFileData call that returned ERROR_IO_PENDING is eventually
\* completed through the completion primitive and removed from the pending
\* map, whatever its fetch yields and also for a path under /objects whose
\* object is missing.
C4_PendingLeadsToCompleted ==
    \A cmd \in 1..MaxCommands :
        (cmd \in DOMAIN returned /\ returned[cmd].hr = "ERROR_IO_PENDING")
            ~> (/\ cmd \in DOMAIN completions
                /\ completions[cmd] > 0
                /\ cmd \notin DOMAIN pendingFileRequests_)

\* the bytes of content the range of a request covers
ClippedBytes(content, request) ==
    IF request.byteOffset >= content.size THEN 0
    ELSE Min(request.length, content.size - request.byteOffset)

\* C5: when readFile for a path resolves with content of any length, every
\* request pending on the path is completed with success and is given the
\* clipped bytes of that content, where the platform allocates and writes;
\* it is never completed with file-not-found.
C5_ResolvedContentIsDelivered ==
    \A cmd \in DOMAIN lastCompleted :
        LET done == lastCompleted[cmd]
        IN done.resolved # NoContent =>
              /\ done.result.hr # "ERROR_FILE_NOT_FOUND"
              /\ done.platform = "ok" =>
                    /\ done.result.hr = "S_OK"
                    /\ done.result.bytes = ClippedBytes(done.resolved, done.request)
                    /\ done.result.bytes > 0 => done.result.id = done.resolved.id

\* C12: a read whose offset is at or past the end of the file, for every
\* size of the file including 0, completes with success and zero bytes
\* written, both when GetFileData serves it at once and when it is completed
\* later by CompletePendingFileRequests.
C12_ReadPastEndSucceeds ==
    /\ (lastOp.op = "GetFileData" /\ lastOp.byteOffset >= lastOp.content.size)
          => (lastOp.result.hr = "S_OK" /\ lastOp.result.bytes = 0)
    /\ \A cmd \in DOMAIN lastCompleted :
          LET done == lastCompleted[cmd]
          IN (done.resolved # NoContent /\ done.request.byteOffset >= done.resolved.size)
                => (done.result.hr = "S_OK" /\ done.result.bytes = 0)

\* the delivery made for content found, a range that starts inside it and a
\* platform that allocates and writes: min(length, size - offset) bytes of
\* that content, written at the offset asked for
IsClippedWindow(result, content, byteOffset, length) ==
    /\ result.hr = "S_OK"
    /\ result.id = content.id
    /\ result.offset = byteOffset
    /\ result.bytes = IF byteOffset + length > content.size
                      THEN content.size - byteOffset ELSE length

CachedContentPaths == {<<"a">>, <<"/", "objects", "/", "h1", "/", "raw.txt">>}
CachedContentValues == {SmallContent, EmptyContent}

\* IFSProjFSProvider.setCachedContent(path, content): the path is normalised
\* and the buffer is stored by ContentCache::SetFileContent
setCachedContent ==
    \E path \in CachedContentPaths, content \in CachedContentValues :
        /\ Becomes(SetFileContent(Cache, normalizePath(path), content))
        /\ lastOp' = [op |-> "other"]
        /\ UNCHANGED <<now, lastSet, enumVars, otherVars>>

\* the reads of one kernel thread and the application; the fetches stay
\* queued (readFile yields nothing for a path under /objects)
NextDisk ==
    \/ \E t \in OpenThreads : GetFileDataCallback(t)
    \/ \E t \in OpenThreads : GetFileDataStore(t)
    \/ setCachedContent

SpecDisk == InitCache /\ [][NextDisk]_vars

\* the path is /objects/<hash>/raw.txt and the store holds the object
IsStoredRawText(virtualPath) ==
    /\ IsObjectPath(virtualPath)
    /\ Len(virtualPath) = 6
    /\ virtualPath[5] = "/" /\ virtualPath[6] = "raw.txt"
    /\ \E i \in DOMAIN StorageObjects : StorageObjects[i] = virtualPath[4]

\* the step is a GetFileData call for the path that was answered at once
ServesAtOnce(virtualPath) ==
    /\ nextCommandId' = nextCommandId + 1
    /\ lastOp'.op = "GetFileData"
    /\ lastOp'.path = virtualPath

\* the step is a GetFileData call for the path that goes on to store a
\* pending request and to fetch
GoesPending(virtualPath) ==
    /\ nextCommandId' = nextCommandId + 1
    /\ \E t \in Threads : /\ dataCall'[t] # dataCall[t]
                           /\ dataCall'[t].virtualPath = virtualPath

\* the call was answered with the bytes of the object file, and cache,
\* pending requests and fetches are as they were
FromDiskOnly ==
    /\ lastOp'.from = "disk"
    /\ lastOp'.content = ObjectContent
    /\ UNCHANGED <<cacheVars, pendingFileRequests_, contentFetches, dataCall>>

\* C21 as stated: a GetFileData call for /objects/<hash>/raw.txt whose
\* object file is in the store is answered with the bytes read from disk
\* whatever the content cache holds, changes nothing in the cache, sends no
\* request to the bridge and stores no pending request.
C21_ObjectServedFromDisk ==
    [][\A virtualPath \in {VirtualPath(p) : p \in DataPaths} :
          IsStoredRawText(virtualPath) =>
             /\ ~GoesPending(virtualPath)
             /\ ServesAtOnce(virtualPath) => FromDiskOnly]_vars

\* C21, amended: the same of the calls that find no content, or empty
\* content, cached for the path.
C21_ObjectServedFromDiskOnCacheMiss ==
    [][\A virtualPath \in {VirtualPath(p) : p \in DataPaths} :
          (IsStoredRawText(virtualPath) /\ ~Usable(GetFileContent(virtualPath))) =>
             /\ ~GoesPending(virtualPath)
             /\ ServesAtOnce(virtualPath) => FromDiskOnly]_vars

\* bytes of an object have been served from disk while the cache held an
\* (empty) entry for the path and another read was pending
C21_Witness ==
    /\ lastOp.op = "GetFileData" /\ lastOp.from = "disk"
    /\ IsStoredRawText(lastOp.path)
    /\ lastOp.result.hr = "S_OK" /\ lastOp.result.bytes > 0
    /\ lastOp.path \in DOMAIN contentCache
    /\ pendingFileRequests_ # << >>

(***************************************************************************)
(* The deferred path of GetFileData step by step: the request is stored,   *)
(* then the fetch is triggered and the callback returns.                   *)
(***************************************************************************)
\* the pending request is stored under pendingRequestsMutex_
GetFileDataRecord(t) ==
    /\ dataCall[t] # NoCall
    /\ dataCall[t].cmd \notin DOMAIN completions
    /\ pendingFileRequests_' = StorePending(pendingFileRequests_, dataCall[t])
    /\ completions' = completions @@ (dataCall[t].cmd :> 0)
    /\ lastOp' = [op |-> "other"]
    /\ UNCHANGED <<cacheVars, now, lastSet, enumVars, notifyVars, lifeVars, dataCall,
                   contentFetches, nextCommandId, returned, lastCompleted>>

\* FetchFileContent queues the host's readFile and the callback returns
\* ERROR_IO_PENDING
GetFileDataTrigger(t) ==
    /\ dataCall[t] # NoCall
    /\ dataCall[t].cmd \in DOMAIN completions
    /\ contentFetches' = FetchFileContent(contentFetches, dataCall[t])
    /\ returned' = returned @@ (dataCall[t].cmd :> [hr |-> "ERROR_IO_PENDING"])
    /\ dataCall' = [dataCall EXCEPT ![t] = NoCall]
    /\ lastOp' = [op |-> "other"]
    /\ UNCHANGED <<cacheVars, now, lastSet, enumVars, notifyVars, lifeVars,
                   pendingFileRequests_, nextCommandId, completions, lastCompleted>>

\* the reads of two kernel threads and the host's readFile, which caches
\* content and completes what is pending
NextPending ==
    \/ \E t \in Threads : GetFileDataCallback(t)
    \/ \E t \in Threads : GetFileDataRecord(t)
    \/ \E t \in Threads : GetFileDataTrigger(t)
    \/ readFile

SpecPending == InitCache /\ [][NextPending]_vars

\* the step is a GetFileData call for the path
ReadsPath(virtualPath) ==
    /\ nextCommandId' = nextCommandId + 1
    /\ \/ lastOp'.op = "GetFileData" /\ lastOp'.path = virtualPath
       \/ GoesPending(virtualPath)

\* C22: a GetFileData call for a path outside /objects that finds no usable
\* content cached does not answer at once but takes the deferred path; on
\* that path the request is stored under its command id, with path, offset
\* and length, before the fetch is triggered; the callback returns
\* ERROR_IO_PENDING in the step that queues the fetch, without waiting for
\* the host to run it; and storing a request leaves every request already
\* pending, for the same file or another, as it was.
C22_DeferredWithoutWaiting ==
    [][/\ \A virtualPath \in {VirtualPath(p) : p \in DataPaths} :
             (/\ ~IsObjectPath(virtualPath)
              /\ ~Usable(GetFileContent(virtualPath))
              /\ ReadsPath(virtualPath)) => GoesPending(virtualPath)
       /\ \A cmd \in DOMAIN contentFetches' \ DOMAIN contentFetches :
             /\ cmd \in DOMAIN completions
             /\ contentFetches'[cmd].stage = "queued"
             /\ cmd \in DOMAIN returned' \ DOMAIN returned
             /\ returned'[cmd].hr = "ERROR_IO_PENDING"
       /\ \A t \in Threads :
             (dataCall[t] # NoCall /\ dataCall[t].cmd \notin DOMAIN completions
               /\ dataCall[t].cmd \in DOMAIN completions') =>
                /\ DOMAIN pendingFileRequests_' =
                      DOMAIN pendingFileRequests_ \cup {dataCall[t].cmd}
                /\ dataCall[t].cmd \notin DOMAIN pendingFileRequests_
                /\ pendingFileRequests_'[dataCall[t].cmd] =
                      [virtualPath |-> dataCall[t].virtualPath,
                       byteOffset |-> dataCall[t].byteOffset,
                       length |-> dataCall[t].length,
                       virtualizationContext |-> virtualizationContext_]
                /\ \A cmd \in DOMAIN pendingFileRequests_ :
                      pendingFileRequests_'[cmd] = pendingFileRequests_[cmd]]_vars

\* two reads of the same file are pending side by side, each under its own
\* command id, both callbacks have returned ERROR_IO_PENDING and neither
\* fetch has been run by the host
C22_Witness ==
    \E c1, c2 \in DOMAIN pendingFileRequests_ :
        /\ c1 # c2
        /\ pendingFileRequests_[c1].virtualPath = pendingFileRequests_[c2].virtualPath
        /\ ~IsObjectPath(pendingFileRequests_[c1].virtualPath)
        /\ \A c \in {c1, c2} :
              /\ c \in DOMAIN returned /\ returned[c].hr = "ERROR_IO_PENDING"
              /\ c \in DOMAIN contentFetches /\ contentFetches[c].stage = "queued"

\* the kernel reading, the host's readFile and the application completing
\* requests; a resolved fetch stays as it is
NextComplete ==
    \/ \E t \in OpenThreads : GetFileDataCallback(t)
    \/ \E t \in OpenThreads : GetFileDataStore(t)
    \/ readFile
    \/ completePendingFileRequests

SpecComplete == InitCache /\ [][NextComplete]_vars

\* the path of the request and the path argument are the same once
\* backslashes are slashes and a leading slash is in place
SameNormalizedPath(request, path) ==
    NormalizeForCompare(request.virtualPath) = NormalizeForCompare(path)

\* the paths CompletePendingFileRequests is called with
CompletionPaths ==
    ApiPaths \cup {normalizePath(VirtualPath(relativePath)) : relativePath \in DataPaths}

\* the step calls CompletePendingFileRequests(path): the application does,
\* or readFile does for a fetch that yielded content
CompletionCall(path) ==
    \/ lastOp' = [op |-> "CompletePendingFileRequests", path |-> path]
    \/ \E f \in DOMAIN contentFetches :
          /\ contentFetches[f].stage = "queued"
          /\ contentFetches'[f].stage = "resolved"
          /\ contentFetches'[f].result # NoContent
          /\ path = normalizePath(contentFetches[f].path)

\* C30: a call of CompletePendingFileRequests(path) completes, once each,
\* the pending requests whose normalized path equals the normalized path
\* argument and removes them from the map; every other pending request
\* stays in the map as it was and is not completed.
C30_CompletesExactlyThePath ==
    [][\A path \in CompletionPaths :
          CompletionCall(path) =>
             LET same == {cmd \in DOMAIN pendingFileRequests_ :
                             SameNormalizedPath(pendingFileRequests_[cmd], path)}
             IN /\ DOMAIN pendingFileRequests_' = DOMAIN pendingFileRequests_ \ same
                /\ DOMAIN lastCompleted' = same
                /\ \A cmd \in same : completions'[cmd] = completions[cmd] + 1
                /\ \A cmd \in DOMAIN pendingFileRequests_ \ same :
                      /\ pendingFileRequests_'[cmd] = pendingFileRequests_[cmd]
                      /\ completions'[cmd] = completions[cmd]]_vars

\* a call of the application with the path 'a' has just completed a
\* request stored for '/a', and a request for another path is still
\* pending and uncompleted
C30_Witness ==
    /\ lastOp = [op |-> "CompletePendingFileRequests", path |-> <<"a">>]
    /\ \E cmd \in DOMAIN lastCompleted :
          /\ lastCompleted[cmd].request.virtualPath = PathA
          /\ cmd \notin DOMAIN pendingFileRequests_
    /\ \E cmd \in DOMAIN pendingFileRequests_ :
          /\ ~SameNormalizedPath(pendingFileRequests_[cmd], <<"a">>)
          /\ completions[cmd] = 0

(***************************************************************************)
(* Notifications: NotificationCallback, the write queue of AsyncBridge and *)
(* the thread that drains it.                                              *)
(***************************************************************************)
MaxNotifications == 2   \* notifications the kernel sends

\* PRJ_NOTIFICATION: the kinds the callback names, and one it does not
NotificationKinds ==
    {"FILE_OPENED", "NEW_FILE_CREATED", "FILE_OVERWRITTEN", "PRE_DELETE",
     "PRE_RENAME", "PRE_SET_HARDLINK", "FILE_RENAMED", "HARDLINK_CREATED",
     "FILE_HANDLE_CLOSED_NO_MODIFICATION", "FILE_HANDLE_CLOSED_FILE_MODIFIED",
     "FILE_HANDLE_CLOSED_FILE_DELETED", "FILE_PRE_CONVERT_TO_FULL", "UNKNOWN"}

\* callbackData->FilePathName of the notifications
NotifyPaths == {<<"a">>, <<"a", "\\", "b">>}

\* a callback that lets a rename through
NotificationResultAllowingRename(notification) ==
    IF notification \in {"FILE_OPENED", "FILE_HANDLE_CLOSED_NO_MODIFICATION",
                         "FILE_PRE_CONVERT_TO_FULL", "PRE_RENAME"}
    THEN "S_OK"
    ELSE IF notification \in {"NEW_FILE_CREATED", "FILE_OVERWRITTEN", "PRE_DELETE",
                              "PRE_SET_HARDLINK"}
    THEN "ERROR_ACCESS_DENIED"
    ELSE IF notification \in {"FILE_RENAMED", "HARDLINK_CREATED",
                              "FILE_HANDLE_CLOSED_FILE_MODIFIED",
                              "FILE_HANDLE_CLOSED_FILE_DELETED"}
    THEN "S_OK"
    ELSE "ERROR_ACCESS_DENIED"

\* the second switch of NotificationCallback
NotificationResult(notification) ==
    IF notification \in {"FILE_OPENED", "FILE_HANDLE_CLOSED_NO_MODIFICATION",
                         "FILE_PRE_CONVERT_TO_FULL"}
    THEN "S_OK"
    ELSE IF notification \in {"NEW_FILE_CREATED", "FILE_OVERWRITTEN", "PRE_DELETE",
                              "PRE_RENAME", "PRE_SET_HARDLINK"}
    THEN "ERROR_ACCESS_DENIED"
    ELSE IF notification \in {"FILE_RENAMED", "HARDLINK_CREATED",
                              "FILE_HANDLE_CLOSED_FILE_MODIFIED",
                              "FILE_HANDLE_CLOSED_FILE_DELETED"}
    THEN "S_OK"
    ELSE "ERROR_ACCESS_DENIED"

QueueCreateFile(queue, path, content) ==
    Append(queue, [type |-> "CREATE", path |-> path, content |-> content])

QueueUpdateFile(queue, path, content) ==
    Append(queue, [type |-> "UPDATE", path |-> path, content |-> content])

QueueDeleteFile(queue, path) ==
    Append(queue, [type |-> "DELETE_FILE", path |-> path, content |-> EmptyContent])

\* a callback that hands a created file on to the bridge
ForwardedByNotification(queue, notification, virtualPath) ==
    IF notification = "NEW_FILE_CREATED"
    THEN QueueCreateFile(queue, virtualPath, EmptyContent)
    ELSE queue

\* the write queue after the callback: it logs and returns, and calls none
\* of QueueCreateFile, QueueUpdateFile, QueueDeleteFile
QueuedByNotification(queue, notification, virtualPath) == queue

\* the callback reads no state of the provider, and a callback can still be
\* running when the bridge is stopped
NotificationCallback ==
    /\ alive
    /\ notifyCount < MaxNotifications
    /\ \E notification \in NotificationKinds, relativePath \in NotifyPaths,
          isDirectory \in BOOLEAN :
          LET virtualPath == VirtualPath(relativePath)
          IN /\ notified' = [kind |-> notification, path |-> virtualPath,
                             isDirectory |-> isDirectory,
                             hr |-> NotificationResult(notification)]
             /\ writeQueue_' = QueuedByNotification(writeQueue_, notification, virtualPath)
    /\ notifyCount' = notifyCount + 1
    /\ lastOp' = [op |-> "Notification"]
    /\ UNCHANGED <<cacheVars, now, lastSet, enumVars, dataVars, lifeVars, running_, hostWrites>>

\* createFile of the host for the CREATE operations of a drained queue
RECURSIVE CreateFileCalls(_)
CreateFileCalls(toProcess) ==
    IF toProcess = << >> THEN << >>
    ELSE IF Head(toProcess).type = "CREATE"
    THEN <<[path |-> normalizePath(Head(toProcess).path),
            content |-> Head(toProcess).content]>> \o CreateFileCalls(Tail(toProcess))
    ELSE CreateFileCalls(Tail(toProcess))

\* one round of the bridge's background thread
ProcessWriteQueue ==
    /\ alive
    /\ running_
    /\ writeQueue_' = << >>
    /\ hostWrites' = hostWrites \o CreateFileCalls(writeQueue_)
    /\ lastOp' = [op |-> "ProcessWriteQueue"]
    /\ UNCHANGED <<cacheVars, now, lastSet, enumVars, dataVars, lifeVars, running_,
                   notified, notifyCount>>

AsyncBridgeStart ==
    /\ ~running_
    /\ alive
    /\ running_' = TRUE
    /\ lastOp' = [op |-> "other"]
    /\ UNCHANGED <<cacheVars, now, lastSet, enumVars, dataVars, lifeVars, writeQueue_,
                   hostWrites, notified, notifyCount>>

\* what becomes of a ThreadSafeFunction that is used after its Release():
\* the call is turned down (napi_closing), or the freed function is touched
\* and the process dies
UseAfterRelease == {"closing", "crash"}

\* the Release() calls of AsyncBridge::Stop: a handle stays set after its
\* Release(), so that the tests `if (callback_)` let a second Stop release
\* the released functions again
ReleaseCallbacks(outcome) ==
    IF hostCallbacks = "registered"
    THEN /\ hostCallbacks' = "released"
         /\ alive' = alive
    ELSE /\ hostCallbacks' = hostCallbacks
         /\ alive' = (alive /\ outcome # "crash")

AsyncBridgeStop ==
    /\ running_
    /\ alive
    /\ running_' = FALSE
    /\ \E outcome \in UseAfterRelease : ReleaseCallbacks(outcome)
    /\ lastOp' = [op |-> "other"]
    /\ UNCHANGED <<cacheVars, now, lastSet, enumVars, dataVars, writeQueue_,
                   hostWrites, notified, notifyCount, isRunning_,
                   virtualizationContext_, bridgeQueue, infoFetches, lifecycle,
                   tombVars>>

NextNotify ==
    \/ NotificationCallback
    \/ ProcessWriteQueue
    \/ AsyncBridgeStart
    \/ AsyncBridgeStop

\* the projection is mounted: mount() has pre-populated the cache
SpecNotify == InitEnumeration /\ [][NextNotify]_vars

\* the kinds of notification that announce a write
WriteKinds ==
    {"PRE_DELETE", "PRE_RENAME", "PRE_SET_HARDLINK", "NEW_FILE_CREATED",
     "FILE_OVERWRITTEN"}

\* C6: for every notification of kind pre-delete, pre-rename,
\* pre-set-hardlink, new-file-created or overwritten, on any path and in
\* any state of the provider, the callback returns access-denied.
C6_WritesAreDenied ==
    (notifyCount > 0 /\ notified.kind \in WriteKinds)
        => notified.hr = "ERROR_ACCESS_DENIED"

C6_Witness ==
    /\ notifyCount > 0
    /\ notified.kind = "PRE_RENAME"
    /\ notified.isDirectory
    /\ notified.path = PathAB
    /\ notified.hr = "ERROR_ACCESS_DENIED"
    /\ ~running_

\* C7: the projection is read-only.  No step calls the host's write
\* operation, so the write queue is never drained into a host call, and a
\* notification adds no cache entry and queues no write.
C7_ReadOnly ==
    [][/\ hostWrites' = << >>
       /\ notifyCount' # notifyCount =>
             /\ fileInfoCache' = fileInfoCache
             /\ directoryCache' = directoryCache
             /\ contentCache' = contentCache
             /\ writeQueue_' = writeQueue_]_vars

\* a new file was announced and denied, the background thread has run
\* since, and the host has seen no write
C7_Witness ==
    /\ notifyCount > 0
    /\ notified.kind = "NEW_FILE_CREATED"
    /\ notified.hr = "ERROR_ACCESS_DENIED"
    /\ lastOp.op = "ProcessWriteQueue"
    /\ directoryCache # << >>
    /\ hostWrites = << >>


\* the kinds the notification policy names: allowed, denied, observed
ClassifiedKinds ==
    {"FILE_OPENED", "FILE_HANDLE_CLOSED_NO_MODIFICATION"}
       \cup WriteKinds
       \cup {"FILE_RENAMED", "HARDLINK_CREATED", "FILE_HANDLE_CLOSED_FILE_MODIFIED",
             "FILE_HANDLE_CLOSED_FILE_DELETED"}

\* C24: a notification of any kind other than file-opened,
\* close-without-modification, the five denied write kinds and the four
\* observed post-operation kinds is answered with access-denied.
C24_UnclassifiedAreDenied ==
    (notifyCount > 0 /\ notified.kind \notin ClassifiedKinds)
        => notified.hr = "ERROR_ACCESS_DENIED"

(***************************************************************************)
(* Opening what was enumerated: GetPlaceholderInfoCallback, next to the    *)
(* enumeration callbacks of one kernel thread and the passing of time.     *)
(***************************************************************************)
MaxLifetimes == 1       \* how many times the lifetime of the cache elapses
MaxLifecycleOps == 4    \* start, stop and registerCallbacks calls of one run
MaxQueued == 1          \* calls of one callback waiting for the host loop

\* callbackData->FilePathName of the entries opened (relative paths)
PlaceholderPaths == {<<"a">>, <<"b">>, <<"objects", "\\", "h1">>}

\* the relative path of entry name of the directory dir
ChildPath(dir, name) == IF dir = << >> THEN <<name>> ELSE dir \o <<"\\", name>>

\* virtualPath.length() > 1 && virtualPath.find('/', 1) == npos
IsSingleLevel(virtualPath) ==
    /\ Len(virtualPath) > 1
    /\ \A i \in 2..Len(virtualPath) : virtualPath[i] # "/"

\* SyncStorage::GetObjectMetadata(hash).exists
ObjectExists(hash) == \E i \in DOMAIN StorageObjects : StorageObjects[i] = hash

\* SyncStorage::GetVirtualPathMetadata(virtualPath).exists
VirtualPathExists(virtualPath) ==
    \/ virtualPath \in {Root, PathObjects}
    \/ /\ IsObjectPath(virtualPath)
       /\ ExtractHashFromPath(virtualPath) # ""
       /\ \/ Len(virtualPath) = 4
          \/ virtualPath[Len(virtualPath)] \in
                {"raw.txt", "pretty.html", "json.txt", "type.txt"}
       /\ ObjectExists(ExtractHashFromPath(virtualPath))

\* the path is a single segment that the cached listing of the root holds
\* as a directory
IsMountPoint(virtualPath) ==
    LET rootListing == GetDirectoryListing(Root)
    IN /\ IsSingleLevel(virtualPath)
       /\ rootListing.found
       /\ \E i \in 1..Len(rootListing.data) :
             /\ <<rootListing.data[i].name>> = Tail(virtualPath)
             /\ rootListing.data[i].isDirectory

\* the entries of the cached listing of the parent directory that have the
\* name of the path
ParentEntries(virtualPath) ==
    LET lastSlash == RFindSlash(virtualPath)
        before == SubstrBefore(virtualPath, lastSlash)
        parentPath == IF before = << >> THEN Root ELSE before
        fileName == SubSeq(virtualPath, lastSlash + 1, Len(virtualPath))
        dirListing == GetDirectoryListing(parentPath)
    IN IF lastSlash # 0 /\ dirListing.found
       THEN SelectSeq(dirListing.data, LAMBDA entry : <<entry.name>> = fileName)
       ELSE << >>

\* a callback that looks into the file infos before the listing of the root
PlaceholderSourceInfoFirst(virtualPath) ==
    IF GetFileInfo(virtualPath).found THEN "file info"
    ELSE IF IsMountPoint(virtualPath) THEN "mount point"
    ELSE IF ParentEntries(virtualPath) # << >> THEN "parent listing"
    ELSE IF IsObjectPath(virtualPath) /\ VirtualPathExists(virtualPath)
    THEN "disk"
    ELSE "none"

\* where GetPlaceholderInfoCallback finds the entry: in the listing of the
\* root as a mount point, in the file infos, in the listing of the parent
\* directory, on disk, or nowhere
PlaceholderSource(virtualPath) ==
    LET rootListing == GetDirectoryListing(Root)
        fileInfo == GetFileInfo(virtualPath)
        lastSlash == RFindSlash(virtualPath)
        before == SubstrBefore(virtualPath, lastSlash)
        parentPath == IF before = << >> THEN Root ELSE before
        fileName == SubSeq(virtualPath, lastSlash + 1, Len(virtualPath))
        dirListing == GetDirectoryListing(parentPath)
    IN IF /\ IsSingleLevel(virtualPath)
          /\ rootListing.found
          /\ \E i \in 1..Len(rootListing.data) :
                /\ <<rootListing.data[i].name>> = Tail(virtualPath)
                /\ rootListing.data[i].isDirectory
       THEN "mount point"
       ELSE IF fileInfo.found THEN "file info"
       ELSE IF /\ lastSlash # 0
               /\ dirListing.found
               /\ \E i \in 1..Len(dirListing.data) :
                     <<dirListing.data[i].name>> = fileName
       THEN "parent listing"
       ELSE IF IsObjectPath(virtualPath) /\ VirtualPathExists(virtualPath)
       THEN "disk"
       ELSE "none"

\* a callback that defers the answer on a miss
PlaceholderResultPending(virtualPath, source) ==
    IF source = "none" THEN "ERROR_IO_PENDING" ELSE "S_OK"

\* what the callback returns (PrjWritePlaceholderInfo taken to succeed)
PlaceholderResult(virtualPath, source) ==
    IF source = "none" THEN "ERROR_FILE_NOT_FOUND" ELSE "S_OK"

\* GetPlaceholderInfoCallback: on a miss it asks the host for the info and
\* answers file-not-found
GetPlaceholderInfoCallback ==
    \E relativePath \in PlaceholderPaths :
        LET virtualPath == VirtualPath(relativePath)
            source == PlaceholderSource(virtualPath)
        IN /\ source = "none" => Cardinality(infoFetches \ {virtualPath}) < MaxQueued
           /\ lastOp' = [op |-> "GetPlaceholderInfo", relativePath |-> relativePath,
                         source |-> source,
                         hr |-> PlaceholderResult(virtualPath, source)]
           /\ infoFetches' = IF source = "none" THEN infoFetches \cup {virtualPath}
                                                ELSE infoFetches
           /\ UNCHANGED <<cacheVars, now, lastSet, enumVars, dataVars, notifyVars,
                          isRunning_, virtualizationContext_, hostCallbacks, alive,
                          bridgeQueue, lifecycle, tombVars>>

\* what fileSystem.stat of the host yields for a path
StatOf(virtualPath) ==
    IF virtualPath = PathA THEN Some(FileInfo("a", 0, TRUE))
    ELSE IF virtualPath = <<"/", "b">> THEN Some(FileInfo("b", 260, FALSE))
    ELSE NullOpt

\* getFileInfo of the host runs for a fetch; onResolve of FetchFileInfo
\* caches the info it yields
HostGetFileInfo ==
    \E virtualPath \in infoFetches :
        /\ insertCount < InitialInserts + MaxInserts
        /\ infoFetches' = infoFetches \ {virtualPath}
        /\ IF StatOf(virtualPath).found
           THEN Becomes(SetFileInfo(Cache, virtualPath, StatOf(virtualPath).data))
           ELSE UNCHANGED cacheVars
        /\ lastOp' = [op |-> "other"]
        /\ UNCHANGED <<now, lastSet, enumVars, dataVars, notifyVars,
                       isRunning_, virtualizationContext_, hostCallbacks, alive,
                       bridgeQueue, lifecycle, tombVars>>

\* the steady clock advances by the lifetime of the cache entries
TTLElapses ==
    /\ now < MaxLifetimes * ttl_
    /\ now' = now + ttl_
    /\ lastSet' = AgedAll(lastSet, now + ttl_, ttl_)
    /\ lastOp' = [op |-> "other"]
    /\ UNCHANGED <<cacheVars, enumVars, otherVars>>

NextOpen ==
    \/ StartDirectoryEnumerationCallback
    \/ \E t \in OpenThreads : GetDirectoryEnumerationCallback(t)
    \/ \E t \in OpenThreads : GetLoad(t)
    \/ \E t \in OpenThreads : GetPollHit(t)
    \/ \E t \in OpenThreads : GetPollTimeout(t)
    \/ \E t \in OpenThreads : GetRelock(t)
    \/ EndDirectoryEnumerationCallback
    \/ HostReadDirectory
    \/ OnDirectoryListingUpdated
    \/ GetPlaceholderInfoCallback
    \/ HostGetFileInfo
    \/ TTLElapses

SpecOpen == InitEnumeration /\ [][NextOpen]_vars

\* an open session has written the entry of this relative path to a buffer
Enumerated(relativePath) ==
    \E id \in DOMAIN scan :
        \E i \in 1..Len(scan[id].delivered) :
            ChildPath(kernel[id].dir, scan[id].delivered[i]) = relativePath

\* C18: a GetPlaceholderInfo call for an entry that a session still open has
\* returned for its directory does not answer file-not-found, whatever has
\* happened to the cache since the entry was returned.
C18_EnumeratedEntryResolves ==
    (lastOp.op = "GetPlaceholderInfo" /\ Enumerated(lastOp.relativePath))
        => lastOp.hr # "ERROR_FILE_NOT_FOUND"


\* the placeholder queries on their own: the kernel asks, the host answers
\* the info fetches and caches listings, the cache entries expire
NextPlaceholder ==
    \/ GetPlaceholderInfoCallback
    \/ HostGetFileInfo
    \/ CacheSetDirectoryListing
    \/ TTLElapses

SpecPlaceholder == InitEnumeration /\ [][NextPlaceholder]_vars

\* the cache holds a listing of the directory that is not expired and has
\* an entry of this name
InListing(dirPath, name) ==
    /\ dirPath \in DOMAIN directoryCache
    /\ IsValid(directoryCache[dirPath], ttl_)
    /\ \E i \in 1..Len(directoryCache[dirPath].data) :
          directoryCache[dirPath].data[i].name = name

\* one of the sources answers for the path: the listing of the root (for a
\* path of one level), the file infos, the listing of the parent directory
\* or, for a path under /objects/, the object store
Answered(virtualPath) ==
    \/ Len(virtualPath) = 2 /\ InListing(Root, virtualPath[2])
    \/ /\ virtualPath \in DOMAIN fileInfoCache
       /\ IsValid(fileInfoCache[virtualPath], ttl_)
    \/ /\ Len(virtualPath) > 2
       /\ InListing(SubSeq(virtualPath, 1, Len(virtualPath) - 2),
                    virtualPath[Len(virtualPath)])
    \/ IsObjectPath(virtualPath) /\ VirtualPathExists(virtualPath)

\* C23: a GetPlaceholderInfo call never returns ERROR_IO_PENDING and is over
\* in one step.  When none of the sources answers for the path it returns
\* ERROR_FILE_NOT_FOUND and asks the host for the file info; when a source
\* answers it returns the result of writing the placeholder and no call to
\* the host is queued.
C23_PlaceholderNeverDefers ==
    [][lastOp'.op = "GetPlaceholderInfo" =>
          LET virtualPath == VirtualPath(lastOp'.relativePath)
          IN /\ lastOp'.hr # "ERROR_IO_PENDING"
             /\ pc' = pc
             /\ UNCHANGED <<dirFetches, contentFetches, bridgeQueue>>
             /\ IF Answered(virtualPath)
                THEN /\ lastOp'.hr = "S_OK"
                     /\ infoFetches' = infoFetches
                ELSE /\ lastOp'.hr = "ERROR_FILE_NOT_FOUND"
                     /\ infoFetches' = infoFetches \cup {virtualPath}]_vars

\* a query for an entry of the root listing, which is still in the cache but
\* has expired, has just been answered file-not-found and its info fetch is
\* queued
C23_Witness ==
    /\ lastOp.op = "GetPlaceholderInfo"
    /\ lastOp.hr = "ERROR_FILE_NOT_FOUND"
    /\ VirtualPath(lastOp.relativePath) \in infoFetches
    /\ Root \in DOMAIN directoryCache
    /\ ~IsValid(directoryCache[Root], ttl_)
    /\ \E i \in 1..Len(directoryCache[Root].data) :
          <<directoryCache[Root].data[i].name>> = lastOp.relativePath

\* the directory flag and the size that CreateFileBasicInfo is given for an
\* entry found in `source`
PlaceholderMetadata(virtualPath, source) ==
    IF source = "mount point" THEN [isDirectory |-> TRUE, size |-> 0]
    ELSE IF source = "file info"
    THEN [isDirectory |-> GetFileInfo(virtualPath).data.isDirectory,
          size |-> GetFileInfo(virtualPath).data.size]
    ELSE IF source = "parent listing"
    THEN [isDirectory |-> Head(ParentEntries(virtualPath)).isDirectory,
          size |-> Head(ParentEntries(virtualPath)).size]
    ELSE IF Len(virtualPath) = 4
    THEN [isDirectory |-> TRUE, size |-> 0]
    ELSE [isDirectory |-> FALSE, size |-> ObjectContent.size]

\* the placeholder queries with a host that caches file infos and listings
NextResolve ==
    \/ GetPlaceholderInfoCallback
    \/ HostGetFileInfo
    \/ CacheSetFileInfo
    \/ CacheSetDirectoryListing
    \/ TTLElapses

SpecResolve == InitEnumeration /\ [][NextResolve]_vars

\* C36: GetPlaceholderInfo answers from the first source that knows the
\* path, in this order: for a single-segment path the cached listing of the
\* root where it holds the name as a directory (reported as a directory of
\* size 0, whatever the file infos hold), the cached file info, the cached
\* listing of the parent, and for a path under /objects/ the object store.
C36_FirstSourceAnswers ==
    [][lastOp'.op = "GetPlaceholderInfo"
         => LET virtualPath == VirtualPath(lastOp'.relativePath)
                source == lastOp'.source
                metadata == PlaceholderMetadata(virtualPath, source)
                info == GetFileInfo(virtualPath)
            IN IF IsMountPoint(virtualPath)
               THEN /\ source = "mount point"
                    /\ metadata = [isDirectory |-> TRUE, size |-> 0]
               ELSE IF info.found
               THEN /\ source = "file info"
                    /\ metadata = [isDirectory |-> info.data.isDirectory,
                                    size |-> info.data.size]
               ELSE IF ParentEntries(virtualPath) # << >>
               THEN /\ source = "parent listing"
                    /\ \E i \in DOMAIN ParentEntries(virtualPath) :
                          metadata = [isDirectory |-> ParentEntries(virtualPath)[i].isDirectory,
                                      size |-> ParentEntries(virtualPath)[i].size]
               ELSE IF IsObjectPath(virtualPath) /\ VirtualPathExists(virtualPath)
               THEN source = "disk"
               ELSE source = "none" /\ lastOp'.hr = "ERROR_FILE_NOT_FOUND"]_vars

\* the callback has answered for 'a' from the listing of the root while the
\* file infos hold 'a' as a file of 260 bytes
C36_Witness ==
    /\ lastOp.op = "GetPlaceholderInfo"
    /\ lastOp.relativePath = <<"a">>
    /\ lastOp.source = "mount point"
    /\ GetFileInfo(PathA).found
    /\ ~GetFileInfo(PathA).data.isDirectory
    /\ GetFileInfo(PathA).data.size = 260

(***************************************************************************)
(* A listing longer than the ceiling of the call counter, paged by a       *)
(* kernel that never restarts the scan and whose buffers fit an entry.     *)
(***************************************************************************)
MaxExtra == 30          \* entries of the listing beyond the ceiling

\* a directory of MAX_CALLS_PER_ENUM + MaxExtra files named "1", "2", ...
LargeListing ==
    [i \in 1..(MAX_CALLS_PER_ENUM + MaxExtra) |-> FileInfo(ToString(i), 0, FALSE)]

\* the names of the first n entries of a listing
FirstNames(listing, n) == [i \in 1..n |-> listing[i].name]

\* the cache after readDirectory has cached the listing and each of its
\* entries (one counted insert per entry, no entry old enough for a sweep to
\* drop) and InvalidateAll has emptied the maps
LargeCache ==
    [InvalidateAll(EmptyCache) EXCEPT !.inserts = @ + Len(LargeListing)]

\* The host has cached the listing of the root; a session on the root has
\* captured it, and MAX_CALLS_PER_ENUM - 1 Get calls without restart-scan,
\* each with a buffer that took one entry or more, have written the first
\* nextIndex entries; the cache has been invalidated since the capture.
InitLarge ==
    /\ now = 0
    /\ \E nextIndex \in (MAX_CALLS_PER_ENUM - 1)..Len(LargeListing) :
          LET c == LargeCache
          IN /\ fileInfoCache = c.fileInfo
             /\ directoryCache = c.directory
             /\ contentCache = c.content
             /\ ttl_ = c.ttl
             /\ insertCount = c.inserts
             /\ enumerationStates_ =
                   [id \in EnumIds |->
                       [entries |-> LargeListing, nextIndex |-> nextIndex,
                        isLoading |-> FALSE, isComplete |-> TRUE,
                        callCount |-> MAX_CALLS_PER_ENUM - 1]]
             /\ scan = [id \in EnumIds |->
                          [NewScan EXCEPT
                              !.delivered = FirstNames(LargeListing, nextIndex),
                              !.stalled = IF nextIndex < Len(LargeListing)
                                          THEN LargeListing[nextIndex + 1].name
                                          ELSE ""]]
    /\ kernel = [id \in EnumIds |-> [dir |-> << >>, pattern |-> "*"]]
    /\ lastSet = NoHistory
    /\ lastOp = [op |-> "init"]
    /\ pc = [t \in Threads |-> "idle"]
    /\ enumId = [t \in Threads |-> NoId]
    /\ dirFetches = [queued |-> 0, resolved |-> 0]
    /\ readCount = 0
    /\ InitData
    /\ InitNotify
    /\ InitLife

\* the buffer of the call that made the step took the first entry offered
\* to it (or the fuse ended the call before any was offered)
FitsOne ==
    \A id \in DOMAIN scan :
        \/ lastOp'.page.fused
        \/ scan'[id].stalled = ""
        \/ scan'[id].delivered # scan[id].delivered

\* a Get call without the restart-scan flag, with a buffer that fits one
\* entry or more
GetNextPage ==
    \E t \in OpenThreads :
        /\ GetDirectoryEnumerationCallback(t)
        /\ ~lastOp'.restart
        /\ FitsOne

NextLarge == GetNextPage

SpecLarge == InitLarge /\ [][NextLarge]_vars

\* C20: a listing of any size is delivered in full.  In a session without
\* restart-scan, a Get call whose buffer fits an entry returns success with
\* no entry written only once every captured entry that matches the pattern
\* has been written (those the platform refused with an error left aside)
\* and the cursor equals the length of the list; until then every such call
\* writes an entry, however many calls that takes.
C20_ListingDeliveredInFull ==
    [][\A id \in DOMAIN enumerationStates_ \cap DOMAIN scan' :
          (/\ Enters(id)
           /\ ~scan'[id].restarted
           /\ lastOp'.page.returned
           /\ FitsOne
           /\ scan'[id].delivered = scan[id].delivered)
             => LET st == enumerationStates_'[id]
                IN /\ scan'[id].delivered =
                         Filtered(st.entries, kernel'[id].pattern, scan'[id].refused)
                   /\ st.nextIndex = Len(st.entries)]_vars

(***************************************************************************)
(* The life cycle of the projection (ifsprojfs_bridge.cpp, AsyncBridge,    *)
(* ProjFSProvider::Start and Stop).                                        *)
(***************************************************************************)

\* what PrjMarkDirectoryAsPlaceholder and PrjStartVirtualizing may answer
StartOutcomes == {"ok", "failed"}

\* the constructors have run: the callbacks of the host are registered, the
\* bridge and the provider are not started
InitLifecycle ==
    /\ fileInfoCache = << >>
    /\ directoryCache = << >>
    /\ contentCache = << >>
    /\ ttl_ = DefaultTTL
    /\ now = 0
    /\ insertCount = InitialInserts
    /\ lastSet = NoHistory
    /\ lastOp = [op |-> "init"]
    /\ InitEnum
    /\ InitData
    /\ writeQueue_ = << >>
    /\ running_ = FALSE
    /\ hostWrites = << >>
    /\ notified = NoNotification
    /\ notifyCount = 0
    /\ isRunning_ = FALSE
    /\ virtualizationContext_ = "null"
    /\ hostCallbacks = "registered"
    /\ alive = TRUE
    /\ bridgeQueue = [kind \in FetchKinds |-> 0]
    /\ infoFetches = {}
    /\ lifecycle = << >>
    /\ tombstones = {}
    /\ watchEvents = {}
    /\ InitLocks

\* IFSProjFSBridge::Start: AsyncBridge::Start, then ProjFSProvider::Start,
\* and AsyncBridge::Stop if the provider did not start
start ==
    \E platform \in StartOutcomes, outcome \in UseAfterRelease :
        LET success == ~isRunning_ /\ platform = "ok"
        IN /\ alive
           /\ Len(lifecycle) < MaxLifecycleOps
           /\ lifecycle' = Append(lifecycle, IF success THEN "start" ELSE "start failed")
           /\ lastOp' = [op |-> "start", success |-> success]
           /\ IF success
              THEN /\ isRunning_' = TRUE
                   /\ virtualizationContext_' = "context"
                   /\ running_' = TRUE
                   /\ UNCHANGED <<hostCallbacks, alive>>
              ELSE /\ running_' = FALSE
                   /\ ReleaseCallbacks(outcome)
                   /\ UNCHANGED <<isRunning_, virtualizationContext_>>
           /\ UNCHANGED <<cacheVars, now, lastSet, enumVars, dataVars, writeQueue_,
                          hostWrites, notified, notifyCount, bridgeQueue,
                          infoFetches, tombVars>>

\* IFSProjFSBridge::Stop: ProjFSProvider::Stop, then AsyncBridge::Stop.  The
\* history tells whether PrjStopVirtualizing was called and whether the
\* callbacks were released for the first time or again.
stop ==
    \E outcome \in UseAfterRelease :
        LET stopping == isRunning_ /\ virtualizationContext_ # "null"
        IN /\ alive
           /\ Len(lifecycle) < MaxLifecycleOps
           /\ lifecycle' = Append(lifecycle, "stop")
           /\ lastOp' = [op |-> "stop", stopVirtualizing |-> stopping,
                         release |-> IF hostCallbacks = "registered"
                                     THEN "first" ELSE "again"]
           /\ IF stopping
              THEN /\ virtualizationContext_' = "null"
                   /\ isRunning_' = FALSE
              ELSE UNCHANGED <<isRunning_, virtualizationContext_>>
           /\ running_' = FALSE
           /\ ReleaseCallbacks(outcome)
           /\ UNCHANGED <<cacheVars, now, lastSet, enumVars, dataVars, writeQueue_,
                          hostWrites, notified, notifyCount, bridgeQueue,
                          infoFetches, tombVars>>

\* registerCallbacks of the host: AsyncBridge::RegisterCallbacks makes new
\* thread-safe functions
registerCallbacks ==
    /\ alive
    /\ Len(lifecycle) < MaxLifecycleOps
    /\ lifecycle' = Append(lifecycle, "register")
    /\ hostCallbacks' = "registered"
    /\ lastOp' = [op |-> "registerCallbacks"]
    /\ UNCHANGED <<cacheVars, now, lastSet, enumVars, dataVars, notifyVars,
                   isRunning_, virtualizationContext_, alive, bridgeQueue,
                   infoFetches, tombVars>>

\* AsyncBridge::FetchFileInfo, FetchDirectoryListing and FetchFileContent,
\* called by a callback of the running projection that missed the cache:
\* the handle is set, and NonBlockingCall queues the call for the host loop
\* unless the function has been released
Fetch ==
    \E kind \in FetchKinds, outcome \in UseAfterRelease :
        /\ alive
        /\ isRunning_
        /\ bridgeQueue[kind] < MaxQueued
        /\ IF hostCallbacks = "registered"
           THEN /\ bridgeQueue' = [bridgeQueue EXCEPT ![kind] = @ + 1]
                /\ lastOp' = [op |-> "Fetch", kind |-> kind, outcome |-> "queued"]
                /\ UNCHANGED alive
           ELSE /\ lastOp' = [op |-> "Fetch", kind |-> kind, outcome |-> outcome]
                /\ alive' = (outcome # "crash")
                /\ UNCHANGED bridgeQueue
        /\ UNCHANGED <<cacheVars, now, lastSet, enumVars, dataVars, notifyVars,
                       isRunning_, virtualizationContext_, hostCallbacks, lifecycle,
                       infoFetches, tombVars>>

\* the host loop runs a queued call: the function of the host is called
\* with the path
HostCall ==
    \E kind \in FetchKinds :
        /\ alive
        /\ bridgeQueue[kind] > 0
        /\ bridgeQueue' = [bridgeQueue EXCEPT ![kind] = @ - 1]
        /\ lastOp' = [op |-> "HostCall", kind |-> kind]
        /\ UNCHANGED <<cacheVars, now, lastSet, enumVars, dataVars, notifyVars,
                       isRunning_, virtualizationContext_, hostCallbacks, alive,
                       lifecycle, infoFetches, tombVars>>

NextLifecycle ==
    \/ start
    \/ stop
    \/ registerCallbacks
    \/ Fetch
    \/ HostCall

SpecLifecycle == InitLifecycle /\ [][NextLifecycle]_vars

\* the calls so far are a start that succeeded, a stop, and a start that
\* succeeded
Restarted == lifecycle = <<"start", "stop", "start">>

\* C16: after start(), stop() and start() the host is running again, and a
\* fetch of info, listing or content that a callback asks of the async
\* bridge is queued for the host, as it is after the first start.
C16_RestartedProjectionWorks ==
    /\ Restarted => isRunning_ /\ running_
    /\ (lifecycle \in {<<"start">>, <<"start", "stop", "start">>}
           /\ lastOp.op = "Fetch")
          => lastOp.outcome = "queued"

\* C17: a stop() on a host that a stop() has already torn down calls
\* neither PrjStopVirtualizing nor Release() of the callbacks of the host
\* again, and leaves the host stopped.
C17_StopIsIdempotent ==
    [][(lastOp'.op = "stop" /\ lifecycle # << >>
          /\ lifecycle[Len(lifecycle)] = "stop")
         => /\ ~lastOp'.stopVirtualizing
            /\ lastOp'.release # "again"
            /\ ~isRunning_' /\ ~running_'
            /\ alive']_vars

\* C31: a start() on a host that is running fails and leaves the running
\* projection as it was: the provider stays running with its
\* virtualization context, and the async bridge stays started with the
\* callbacks of the host it had.
C31_StartWhileRunningChangesNothing ==
    [][(lastOp'.op = "start" /\ isRunning_)
         => /\ ~lastOp'.success
            /\ isRunning_'
            /\ virtualizationContext_' = virtualizationContext_
            /\ running_' = running_
            /\ hostCallbacks' = hostCallbacks
            /\ alive']_vars


(***************************************************************************)
(* Deleted files that are generated on demand.  The notification callback  *)
(* logs FILE_HANDLE_CLOSED_FILE_DELETED and returns; the repair is done by *)
(* the host: mount() watches the directory with fs.watch and calls         *)
(* invalidateTombstone for a file that is gone.                            *)
(***************************************************************************)
\* the generated file (/invites/<filename> in mount)
InvitePath == PathAB

\* what PrjDeleteFile answers: with a tombstone to delete it succeeds or
\* fails, without one it finds no file
PrjDeleteFileOutcomes(virtualPath) ==
    IF virtualPath \in tombstones THEN {"S_OK", "E_FAIL"}
                                  ELSE {"ERROR_FILE_NOT_FOUND"}

\* an InvalidateTombstone that leaves the cache alone
InvalidateTombstoneKeepingCache(c, virtualPath, hr) == c

\* the cache after ProjFSProvider::InvalidateTombstone: it is invalidated
\* when PrjDeleteFile has succeeded, and only then
InvalidateTombstone(c, virtualPath, hr) ==
    IF hr = "S_OK" THEN InvalidatePath(c, virtualPath) ELSE c

\* an InvalidateTombstone that reports success only when it has deleted a
\* tombstone
InvalidateTombstoneResultOnDelete(hr) == hr = "S_OK"

\* what ProjFSProvider::InvalidateTombstone returns after PrjDeleteFile:
\* true when it succeeded and when there was no tombstone to delete
InvalidateTombstoneResult(hr) == hr \in {"S_OK", "ERROR_FILE_NOT_FOUND"}

\* the host caches the info and the content of the generated file
\* (setCachedFileInfo, setCachedContent)
setCachedInvite ==
    \E info \in InfoValues, content \in CachedContentValues :
        /\ insertCount < InitialInserts + MaxInserts
        /\ Becomes(SetFileContent(SetFileInfo(Cache, InvitePath, info),
                                  InvitePath, content))
        /\ lastOp' = [op |-> "other"]
        /\ UNCHANGED <<now, lastSet, enumVars, otherVars>>

\* the user deletes the placeholder: the platform keeps a tombstone, tells
\* the notification callback, and fs.watch will report a 'rename'
FileDeleted ==
    /\ alive
    /\ InvitePath \notin tombstones
    /\ notifyCount < MaxNotifications
    /\ tombstones' = tombstones \cup {InvitePath}
    /\ watchEvents' = watchEvents \cup {InvitePath}
    /\ notified' = [kind |-> "FILE_HANDLE_CLOSED_FILE_DELETED", path |-> InvitePath,
                    isDirectory |-> FALSE,
                    hr |-> NotificationResult("FILE_HANDLE_CLOSED_FILE_DELETED")]
    /\ writeQueue_' = QueuedByNotification(writeQueue_,
                                           "FILE_HANDLE_CLOSED_FILE_DELETED", InvitePath)
    /\ notifyCount' = notifyCount + 1
    /\ lastOp' = [op |-> "Notification"]
    /\ UNCHANGED lockVars
    /\ UNCHANGED <<cacheVars, now, lastSet, enumVars, dataVars, running_, hostWrites,
                   isRunning_, virtualizationContext_, hostCallbacks, alive,
                   bridgeQueue, infoFetches, lifecycle>>

\* the native invalidateTombstone(virtualPath), called by `caller`
InvalidateTombstoneCall(virtualPath, caller) ==
    /\ alive
    /\ IF ~isRunning_ \/ virtualizationContext_ = "null"
       THEN /\ lastOp' = [op |-> caller, path |-> virtualPath, hr |-> "none",
                          success |-> FALSE]
            /\ UNCHANGED <<cacheVars, tombstones>>
       ELSE \E hr \in PrjDeleteFileOutcomes(virtualPath) :
               /\ tombstones' = IF hr = "S_OK" THEN tombstones \ {virtualPath}
                                               ELSE tombstones
               /\ Becomes(InvalidateTombstone(Cache, virtualPath, hr))
               /\ lastOp' = [op |-> caller, path |-> virtualPath, hr |-> hr,
                             success |-> InvalidateTombstoneResult(hr)]
    /\ UNCHANGED lockVars
    /\ UNCHANGED <<now, lastSet, enumVars, dataVars, notifyVars, isRunning_,
                   virtualizationContext_, hostCallbacks, alive, bridgeQueue,
                   infoFetches, lifecycle>>

\* the fs.watch callback of mount() for a 'rename' of a file that no longer
\* exists: clearCachedFileInfo and clearCachedContent are no methods of the
\* native provider, so that invalidateTombstone is the one call made
inviteWatcher ==
    \E virtualPath \in watchEvents :
        /\ watchEvents' = watchEvents \ {virtualPath}
        /\ InvalidateTombstoneCall(virtualPath, "inviteWatcher")

\* the host calls invalidateTombstone itself
invalidateTombstone ==
    /\ UNCHANGED watchEvents
    /\ InvalidateTombstoneCall(InvitePath, "invalidateTombstone")

NextTombstone ==
    \/ CacheSetDirectoryListing
    \/ setCachedInvite
    \/ FileDeleted
    \/ inviteWatcher
    \/ invalidateTombstone
    \/ stop

SpecTombstone == InitCache /\ [][NextTombstone]_vars

\* the cache holds an entry for the path, or the listing of its directory
HasEntries(c, virtualPath) ==
    \/ virtualPath \in DOMAIN c.fileInfo
    \/ virtualPath \in DOMAIN c.directory
    \/ virtualPath \in DOMAIN c.content
    \/ ParentDir(virtualPath) \in DOMAIN c.directory

CacheAfter ==
    [fileInfo |-> fileInfoCache', directory |-> directoryCache',
     content |-> contentCache', ttl |-> ttl_', inserts |-> insertCount']

HoldsPath(c, virtualPath) ==
    \/ virtualPath \in DOMAIN c.fileInfo
    \/ virtualPath \in DOMAIN c.directory
    \/ virtualPath \in DOMAIN c.content

\* C34 as it is stated: whenever invalidateTombstone(path) reports success
\* the cache holds no file info, listing or content for the path, also
\* when the platform had no tombstone; when the projection is not running
\* it reports failure and changes nothing.
C34_SuccessMeansInvalidated ==
    [][lastOp'.op = "invalidateTombstone"
         => /\ lastOp'.success => ~HoldsPath(CacheAfter, lastOp'.path)
            /\ ~isRunning_ => /\ ~lastOp'.success
                              /\ UNCHANGED <<cacheVars, tombstones>>]_vars

\* C34: invalidateTombstone(path) of a projection that is not running
\* reports failure and changes nothing.  Of a running projection it reports
\* success when the platform deleted the tombstone, and then the cache
\* holds no file info, listing or content for the path; it reports success
\* too when the platform had no tombstone, and then the cache is left as it
\* was; when the platform fails otherwise it reports failure and changes
\* nothing.
C34_SuccessInvalidatesWhenDeleted ==
    [][lastOp'.op = "invalidateTombstone"
         => IF ~isRunning_
            THEN /\ ~lastOp'.success
                 /\ UNCHANGED <<cacheVars, tombstones>>
            ELSE /\ lastOp'.hr = "S_OK"
                    => /\ lastOp'.success
                       /\ ~HoldsPath(CacheAfter, lastOp'.path)
                       /\ lastOp'.path \notin tombstones'
                 /\ lastOp'.hr = "ERROR_FILE_NOT_FOUND"
                    => /\ lastOp'.success
                       /\ UNCHANGED <<cacheVars, tombstones>>
                 /\ lastOp'.hr = "E_FAIL"
                    => /\ ~lastOp'.success
                       /\ UNCHANGED <<cacheVars, tombstones>>]_vars

\* invalidateTombstone has reported success for a path without a tombstone
\* whose info and content are cached
C34_Witness ==
    /\ lastOp.op = "invalidateTombstone"
    /\ lastOp.hr = "ERROR_FILE_NOT_FOUND"
    /\ lastOp.success
    /\ isRunning_
    /\ HoldsPath(Cache, InvitePath)


(***************************************************************************)
(* Shutdown with file requests outstanding: the kernel reads while the     *)
(* projection runs, the host loop and the application go on after stop().  *)
(***************************************************************************)
\* the kernel sends GetFileData to a projection that is virtualizing
GetFileDataWhileRunning ==
    /\ isRunning_
    /\ \E t \in OpenThreads : GetFileDataCallback(t) \/ GetFileDataStore(t)

\* stop() of the host, called when no callback is under way
stopProjection ==
    /\ \A t \in Threads : dataCall[t] = NoCall
    /\ stop

NextShutdown ==
    \/ GetFileDataWhileRunning
    \/ readFile
    \/ FetchFileContentResolved
    \/ completePendingFileRequests
    \/ stopProjection

SpecShutdown == InitCache /\ [][NextShutdown]_vars

\* C32: a stop() completes every file request that is pending, once, and
\* removes it: when stop() has returned the pending map is empty.
C32_StopCompletesPending ==
    [][lastOp'.op = "stop"
         => /\ pendingFileRequests_' = << >>
            /\ \A cmd \in DOMAIN pendingFileRequests_ :
                  completions'[cmd] = completions[cmd] + 1]_vars

\* C33: once stop() has been called, no fetch is accepted and the result of
\* a fetch that was in flight is discarded: a step of the host loop for a
\* content fetch (readFile or its onResolve) changes neither the cache nor
\* the completions nor the pending map, and no fetch is added.
C33_StopDiscardsFetches ==
    [][(~running_ /\ contentFetches' # contentFetches)
         => /\ UNCHANGED <<cacheVars, completions, pendingFileRequests_>>
            /\ DOMAIN contentFetches' \subseteq DOMAIN contentFetches]_vars

\* the commands for which a step calls PrjCompleteCommand (and, when there
\* is content in range, PrjAllocateAlignedBuffer and PrjWriteFileData
\* before it), each with request.virtualizationContext
PlatformCalls ==
    {cmd \in DOMAIN completions : completions'[cmd] > completions[cmd]}

\* C40: the platform's data-write and completion primitives are never
\* called with a virtualization context that stop() has released: every
\* platform call of a completion is made while the projection is running,
\* with the context the provider holds.
C40_NoCallOnReleasedContext ==
    [][\A cmd \in PlatformCalls :
          /\ isRunning_
          /\ pendingFileRequests_[cmd].virtualizationContext
                = virtualizationContext_]_vars

(***************************************************************************)
(* The three mutexes: ContentCache::mutex_ (a shared_mutex),                *)
(* enumerationMutex_ and pendingRequestsMutex_.  Every call is the list of  *)
(* lock and unlock calls it makes, in program order.                        *)
(***************************************************************************)
Lock(m) == [do |-> "lock", m |-> m]
LockShared(m) == [do |-> "lock_shared", m |-> m]
Unlock(m) == [do |-> "unlock", m |-> m]

\* ContentCache::GetFileInfo, GetDirectoryListing, GetFileContent
CacheReadPlan == <<LockShared("cache"), Unlock("cache")>>

\* ContentCache::SetFileInfo, SetDirectoryListing, SetFileContent,
\* InvalidatePath
CacheWritePlan == <<Lock("cache"), Unlock("cache")>>

\* GetFileDataCallback on a miss: the cache is read, then the request is
\* stored under the mutex of the pending requests
GetFileDataPlan ==
    CacheReadPlan \o <<Lock("pending"), Unlock("pending")>>

\* CompletePendingFileRequests: the lock_guard of the pending requests is
\* held over the loop, which reads the cache for every request that matches
CompletePendingFileRequestsPlan(matches) ==
    <<Lock("pending")>>
        \o (IF matches = 0 THEN << >>
            ELSE IF matches = 1 THEN CacheReadPlan
            ELSE CacheReadPlan \o CacheReadPlan)
        \o <<Unlock("pending")>>

\* StartDirectoryEnumerationCallback, OnDirectoryListingUpdated
EnumerationPlan == <<Lock("enumeration"), Unlock("enumeration")>>

\* an EndDirectoryEnumerationCallback whose two lock_guards are in one scope
EndDirectoryEnumerationPlanOneScope(debug) ==
    IF debug THEN <<Lock("enumeration"), Lock("enumeration"),
                    Unlock("enumeration"), Unlock("enumeration")>>
             ELSE EnumerationPlan

\* EndDirectoryEnumerationCallback: with a bridge, the lock_guard of the
\* debug block is released at the end of the block; the second guards the
\* erase
EndDirectoryEnumerationPlan(debug) ==
    IF debug THEN EnumerationPlan \o EnumerationPlan ELSE EnumerationPlan

\* GetDirectoryEnumerationCallback of the call that loads: it unlocks,
\* reads the cache and locks again; a call that waits leaves the mutex to
\* the condition variable and has it back when it is woken
GetDirectoryEnumerationPlan(loads) ==
    IF loads THEN EnumerationPlan \o CacheReadPlan \o EnumerationPlan
             ELSE EnumerationPlan \o EnumerationPlan

\* the calls a callback thread of the platform makes
CallbackPlans ==
    {CacheReadPlan, GetFileDataPlan, EnumerationPlan}
        \cup {EndDirectoryEnumerationPlan(debug) : debug \in BOOLEAN}
        \cup {GetDirectoryEnumerationPlan(loads) : loads \in BOOLEAN}

\* the calls the host's thread makes: cache writes, the listing-updated
\* notification of the bridge and completePendingFileRequests
HostPlans ==
    {CacheWritePlan, EnumerationPlan}
        \cup {CompletePendingFileRequestsPlan(matches) : matches \in 0..2}

PlansOf(t) == IF t = "host" THEN HostPlans ELSE CallbackPlans

\* the mutexes a thread holds
HeldBy(t) == {held[t][i].m : i \in DOMAIN held[t]}

\* a lock call returns: nobody holds the mutex, or it is a shared lock and
\* the mutex is held shared only.  A thread that locks a mutex it holds
\* does not return.
Grantable(t, step) ==
    /\ step.m \notin HeldBy(t)
    /\ \A u \in LockThreads \ {t} : \A i \in DOMAIN held[u] :
          held[u][i].m = step.m
              => (step.do = "lock_shared" /\ held[u][i].shared)

\* a thread enters a call
EnterCall(t) ==
    /\ lockPlan[t] = << >>
    /\ \E plan \in PlansOf(t) : lockPlan' = [lockPlan EXCEPT ![t] = plan]
    /\ UNCHANGED held

\* lock() or lock_shared() returns
AcquireLock(t) ==
    /\ lockPlan[t] # << >>
    /\ Head(lockPlan[t]).do \in {"lock", "lock_shared"}
    /\ Grantable(t, Head(lockPlan[t]))
    /\ held' = [held EXCEPT ![t] =
           Append(@, [m |-> Head(lockPlan[t]).m,
                      shared |-> Head(lockPlan[t]).do = "lock_shared"])]
    /\ lockPlan' = [lockPlan EXCEPT ![t] = Tail(@)]

\* unlock(), or the end of the scope of a guard
ReleaseLock(t) ==
    /\ lockPlan[t] # << >>
    /\ Head(lockPlan[t]).do = "unlock"
    /\ held' = [held EXCEPT ![t] =
           SelectSeq(@, LAMBDA h : h.m # Head(lockPlan[t]).m)]
    /\ lockPlan' = [lockPlan EXCEPT ![t] = Tail(@)]

NextLocks ==
    /\ \E t \in LockThreads : EnterCall(t) \/ AcquireLock(t) \/ ReleaseLock(t)
    /\ UNCHANGED <<cacheVars, now, lastSet, lastOp, enumVars, dataVars, notifyVars,
                   isRunning_, virtualizationContext_, hostCallbacks, alive,
                   bridgeQueue, infoFetches, lifecycle, tombstones, watchEvents>>

SpecLocks == InitCache /\ [][NextLocks]_vars

\* the thread is inside a call and its next lock call cannot return
Blocked(t) ==
    /\ lockPlan[t] # << >>
    /\ Head(lockPlan[t]).do \in {"lock", "lock_shared"}
    /\ ~Grantable(t, Head(lockPlan[t]))

\* no thread is about to lock a mutex it holds, and while a call is under
\* way some thread can go on
NoRelockNoDeadlock ==
    /\ \A t \in LockThreads :
          (lockPlan[t] # << >> /\ Head(lockPlan[t]).do # "unlock")
              => Head(lockPlan[t]).m \notin HeldBy(t)
    /\ (\E t \in LockThreads : lockPlan[t] # << >>)
          => \E t \in LockThreads : lockPlan[t] # << >> /\ ~Blocked(t)

\* C35 as it is stated: the cache lock is never taken by a thread that
\* holds the enumeration mutex or the mutex of the pending requests, no
\* thread locks a mutex it holds, and no interleaving deadlocks.
C35_CacheLockFirst ==
    /\ \A t \in LockThreads : \A i, j \in DOMAIN held[t] :
          (i < j /\ held[t][j].m = "cache")
              => held[t][i].m \notin {"enumeration", "pending"}
    /\ NoRelockNoDeadlock

\* C35: the cache lock is the innermost one: a thread that holds it takes
\* no other mutex, the enumeration mutex and the mutex of the pending
\* requests are never held together, and the cache lock is never taken
\* under the enumeration mutex (it is taken under the mutex of the pending
\* requests, by CompletePendingFileRequests); no thread locks a mutex it
\* holds, and no interleaving of callbacks, cache writes and
\* completePendingFileRequests deadlocks.
C35_CacheLockInnermost ==
    /\ \A t \in LockThreads :
          /\ \A i, j \in DOMAIN held[t] :
                i < j => /\ held[t][i].m = "pending"
                         /\ held[t][j].m = "cache"
                         /\ held[t][j].shared
          /\ Len(held[t]) <= 2
    /\ NoRelockNoDeadlock

\* the host is inside CompletePendingFileRequests and reads the cache under
\* the mutex of the pending requests, for which a callback thread waits
C35_Witness ==
    /\ held["host"] = <<[m |-> "pending", shared |-> FALSE],
                        [m |-> "cache", shared |-> TRUE]>>
    /\ \E t \in Threads : Blocked(t) /\ Head(lockPlan[t]).m = "pending"

(***************************************************************************)
(* The keys of the two sides: the path a callback passes with a fetch, and *)
(* the path the host makes of it with normalizePath.                       *)
(***************************************************************************)
MaxSegments == 3        \* segments of a path a callback asks for

\* names of files and directories
Segments == {"a", "objects", "OneFiler"}

\* callbackData->FilePathName of the segments: they are joined by '\'
RECURSIVE FilePathName(_)
FilePathName(segments) ==
    IF segments = << >> THEN << >>
    ELSE IF Len(segments) = 1 THEN segments
    ELSE <<Head(segments), "\\">> \o FilePathName(Tail(segments))

\* the virtual paths the callbacks compute and pass to FetchFileInfo,
\* FetchDirectoryListing and FetchFileContent
FetchPaths ==
    {VirtualPath(FilePathName(segments)) :
        segments \in UNION {[1..n -> Segments] : n \in 0..MaxSegments}}

\* a callback misses the cache and passes the path to a fetch
FetchPath ==
    /\ lastOp.op # "Fetch"
    /\ \E kind \in FetchKinds, virtualPath \in FetchPaths :
          lastOp' = [op |-> "Fetch", kind |-> kind, path |-> virtualPath]
    /\ UNCHANGED <<cacheVars, now, lastSet, enumVars, otherVars>>

\* getFileInfo, readDirectory or readFile of the host runs for the fetch and
\* makes its key, under which it caches and completes, of the path
hostNormalizePath ==
    /\ lastOp.op = "Fetch"
    /\ lastOp' = [op |-> "normalizePath", kind |-> lastOp.kind, pass |-> 1,
                  inputPath |-> lastOp.path, path |-> normalizePath(lastOp.path)]
    /\ UNCHANGED <<cacheVars, now, lastSet, enumVars, otherVars>>

\* the host passes a key it has made through normalizePath once more
\* (setCachedDirectory, setCachedContent and the next fetch of the path do)
hostNormalizeKey ==
    /\ lastOp.op = "normalizePath"
    /\ lastOp.pass = 1
    /\ lastOp' = [op |-> "normalizePath", kind |-> lastOp.kind, pass |-> 2,
                  inputPath |-> lastOp.path, path |-> normalizePath(lastOp.path)]
    /\ UNCHANGED <<cacheVars, now, lastSet, enumVars, otherVars>>

NextKeys ==
    \/ FetchPath
    \/ hostNormalizePath
    \/ hostNormalizeKey

SpecKeys == InitCache /\ [][NextKeys]_vars

\* C39: the key the host makes of a path that a callback passed to a fetch
\* is that path, and normalizePath leaves a key it has made as it is, so
\* that the host caches and completes under the path the callback looks up
\* and stored its pending request under.
C39_KeysAgree ==
    lastOp.op = "normalizePath" => lastOp.path = lastOp.inputPath

=============================================================================
